---- MODULE Spec2Model ----
(***************************************************************************)
(* A model of the PolyMaster trading backend: the market categorizer and   *)
(* the scorer/filter of the Polymarket client, the autonomous trading      *)
(* cycle of TradingService, the TTL cache of PolymarketService, the edge   *)
(* engine of AIService and the order execution of the Polymarket client.   *)
(*                                                                         *)
(* Ten specifications share the module, each over its own variables and    *)
(* leaving the others at their initial values:                             *)
(*   SpecCategory    detect_category applied to bounded titles             *)
(*   SpecFilter      filter_markets_for_trading applied to bounded lists   *)
(*   Spec            run_autonomous_trading, one await per action          *)
(*   SpecCatalog     the five cached reads of PolymarketService            *)
(*   SpecEdge        calculate_market_edge, one await per action           *)
(*   SpecConcurrent  run_autonomous_trading invocations interleaved        *)
(*   SpecStampede    get_all_markets requests interleaved on one key       *)
(*   SpecOrder       execute_market_order, one venue call or wait a step   *)
(*   SpecEndpoint    GET /markets/ over the catalog cache                  *)
(*   FairSpec        Spec, with every await but the forecast returning     *)
(*                                                                         *)
(* Representation.  A Python str is a TLA+ string where the code only      *)
(* stores and compares it for equality, and the sequence of its code       *)
(* points where it is lowered, searched, ordered or parsed (section Text). *)
(* A spread is held in hundredths, and a time in whole hours (the scorer)  *)
(* or seconds (the cache).  The score of the scorer is a double, held with *)
(* its rounding in units of 2^-52 (float_add).  The probabilities, prices  *)
(* and edges of the edge engine are doubles held exactly (section Floats). *)
(***************************************************************************)
EXTENDS Integers, Sequences, FiniteSets, TLC

VARIABLES
  \* SpecCategory
  dc_question,        \* the title handed to detect_category
  dc_result,          \* its return value, "unset" before the call
  \* SpecFilter
  fm_markets,         \* the list handed to filter_markets_for_trading
  fm_featured,        \* the list it returned
  fm_pc,              \* "input" | "done"
  \* Spec (run_autonomous_trading)
  trader_dry_run,     \* self.trader.dry_run
  pc,                 \* the await the coroutine is suspended at, "idle" or "done"
  dry_run,            \* the dry_run argument of the running invocation
  original_dry_run,   \* the local original_dry_run
  response,           \* what the upstream event fetch did in this invocation
  events,             \* the local events
  high_quality_events,
  filtered_events,
  markets,
  filtered_markets,
  idx,                \* position of the for loop over filtered_markets (1-based)
  forecast_log,       \* source_best_trade calls of this invocation, in order
  best_trade,         \* the local best_trade of the current loop iteration
  order_calls,        \* execute_market_order calls of this invocation
  order_outcome,      \* the local trade_result: what execute_market_order returned
  result,             \* what the invocation returned or raised
  \* SpecCatalog
  now,                \* datetime.now(), in seconds
  ticks,              \* how many times the clock has advanced
  calls,              \* how many requests the service has received
  cache,              \* PolymarketService.cache
  svc_pc,             \* the catalog request in flight, "idle" when none is
  svc_key,            \* its cache key
  svc_arg,            \* its argument: the limit or the market id
  svc_response,       \* what the upstream answered to it
  svc_result,         \* what the last catalog request returned or raised
  http_status,        \* the status the markets endpoint answered with
  \* SpecEdge (calculate_market_edge)
  edge_pc,            \* the await the coroutine is suspended at, "idle" or "done"
  analysis,           \* analysis_result["analysis"]: [is_text, text]
  ai_probability,     \* the local ai_probability, normalised
  current_market_price,
  llm_ok,             \* whether get_llm_response returned
  edge_result,        \* the dict calculate_market_edge returned
  \* SpecConcurrent (cycles interleaved on one TradingService)
  cc_trader_dry_run,  \* self.trader.dry_run
  cc_initial,         \* its value before any cycle started
  cc_pc,              \* per cycle: the await it is suspended at, "idle" or "done"
  cc_dry_run,         \* per cycle: its dry_run argument
  cc_original,        \* per cycle: its local original_dry_run
  \* SpecStampede (requests interleaved on one cache key)
  rq_pc,              \* per request: "idle", "get_all_markets" (fetch in flight) or "done"
  rq_result,          \* per request: what it returned or raised
  upstream_calls,     \* fetches dispatched to the upstream
  \* SpecOrder (execute_market_order)
  client_dry_run,     \* Polymarket.dry_run
  clob_client,        \* Polymarket.client: "ClobClient", or None in demo mode
  xo_pc,              \* the venue call in progress, "sleep", "idle" or "done"
  xo_market,          \* the market argument
  token_id,           \* the local token_id
  venue_calls,        \* the calls made to the venue, in order
  xo_result,          \* the return value, "unset" before the return
  \* SpecEndpoint (GET /markets/ over the catalog cache)
  ep_pc,              \* "idle", or the call of the service that is awaited
  ep_params,          \* the query: [limit, category, active_only, sort_by, tradeable_only]
  ep_fetched,         \* get_tradeable_markets: the markets the fetch returned
  ep_stored,          \* per key: the list as it was when _set_cache last stored it
  ep_markets,         \* the list markets_data the handler answered with
  ep_status           \* the status the handler answered with

categoryVars == <<dc_question, dc_result>>
filterVars   == <<fm_markets, fm_featured, fm_pc>>
cycleVars    == <<trader_dry_run, pc, dry_run, original_dry_run, response, events,
                  high_quality_events, filtered_events, markets, filtered_markets,
                  idx, forecast_log, best_trade, order_calls, order_outcome, result>>
catalogVars  == <<now, ticks, calls, cache, svc_pc, svc_key, svc_arg, svc_response, svc_result,
                  http_status>>
edgeVars     == <<edge_pc, analysis, ai_probability, current_market_price, llm_ok,
                  edge_result>>
concurrentVars == <<cc_trader_dry_run, cc_initial, cc_pc, cc_dry_run, cc_original>>
stampedeVars == <<rq_pc, rq_result, upstream_calls>>
orderVars    == <<client_dry_run, clob_client, xo_pc, xo_market, token_id, venue_calls, xo_result>>
endpointVars == <<ep_pc, ep_params, ep_fetched, ep_stored, ep_markets, ep_status>>
vars ==
  <<categoryVars, filterVars, cycleVars, catalogVars, edgeVars,
    concurrentVars, stampedeVars, orderVars, endpointVars>>

notCategoryVars ==
  <<filterVars, cycleVars, catalogVars, edgeVars, concurrentVars,
    stampedeVars, orderVars, endpointVars>>
notFilterVars ==
  <<categoryVars, cycleVars, catalogVars, edgeVars, concurrentVars,
    stampedeVars, orderVars, endpointVars>>
notCycleVars ==
  <<categoryVars, filterVars, catalogVars, edgeVars, concurrentVars,
    stampedeVars, orderVars, endpointVars>>
notCatalogVars ==
  <<categoryVars, filterVars, cycleVars, edgeVars, concurrentVars,
    stampedeVars, orderVars, endpointVars>>
notEdgeVars ==
  <<categoryVars, filterVars, cycleVars, catalogVars, concurrentVars,
    stampedeVars, orderVars, endpointVars>>
notConcurrentVars ==
  <<categoryVars, filterVars, cycleVars, catalogVars, edgeVars,
    stampedeVars, orderVars, endpointVars>>
notStampedeVars ==
  <<categoryVars, filterVars, cycleVars, edgeVars, concurrentVars,
    orderVars, endpointVars>>
notOrderVars ==
  <<categoryVars, filterVars, cycleVars, catalogVars, edgeVars,
    concurrentVars, stampedeVars, endpointVars>>
notEndpointVars ==
  <<categoryVars, filterVars, cycleVars, edgeVars, concurrentVars,
    stampedeVars, orderVars>>

None == "None"

(***************************************************************************)
(* Text                                                                    *)
(*                                                                         *)
(* A Python str is a sequence of Unicode code points: str.lower(), int(),  *)
(* the \d of a pattern and the order of two texts are all defined on the   *)
(* code points.  The operators of this section therefore work on sequences *)
(* of code points, and `codepoints` takes a string of the module to the    *)
(* code points of its characters.  The result of lower() stays a sequence  *)
(* of code points: the lower case of a character that a string here can    *)
(* hold may be one that it cannot hold (U+0181 gives U+0253).              *)
(*                                                                         *)
(* The tables of lower-case mappings, case-ignorable and cased characters, *)
(* decimal digits and whitespace cover every code point of Unicode 14.0,   *)
(* the version of the interpreter's unicodedata.  The alphabet of          *)
(* `codepoints` is bounded: the characters of code 1 to 127 but the        *)
(* backtick, and those of code 256h+128 to 256h+255 for each row h of      *)
(* HighRows.                                                               *)
(***************************************************************************)

\* The characters of code 1 to 31, 32 to 95 and 97 to 127, in code order.
ControlChars ==
  "\t\n\f\r"

PrintableTo95 ==
  " !\"#$%&'()*+,-./0123456789:;<=>?@ABCDEFGHIJKLMNOPQRSTUVWXYZ[\\]^_"

PrintableFrom97 ==
  "abcdefghijklmnopqrstuvwxyz{|}~"

\* Row h holds the characters of code 256h+128 to 256h+255, in code order.
HighRows ==
  <<
    " ¡¢£¤¥¦§¨©ª«¬­®¯°±²³´µ¶·¸¹º»¼½¾¿ÀÁÂÃÄÅÆÇÈÉÊËÌÍÎÏÐÑÒÓÔÕÖ×ØÙÚÛÜÝÞßàáâãäåæçèéêëìíîïðñòóôõö÷øùúûüýþÿ",
    "ƀƁƂƃƄƅƆƇƈƉƊƋƌƍƎƏƐƑƒƓƔƕƖƗƘƙƚƛƜƝƞƟƠơƢƣƤƥƦƧƨƩƪƫƬƭƮƯưƱƲƳƴƵƶƷƸƹƺƻƼƽƾƿǀǁǂǃǄǅǆǇǈǉǊǋǌǍǎǏǐǑǒǓǔǕǖǗǘǙǚǛǜǝǞǟǠǡǢǣǤǥǦǧǨǩǪǫǬǭǮǯǰǱǲǳǴǵǶǷǸǹǺǻǼǽǾǿ",
    "ʀʁʂʃʄʅʆʇʈʉʊʋʌʍʎʏʐʑʒʓʔʕʖʗʘʙʚʛʜʝʞʟʠʡʢʣʤʥʦʧʨʩʪʫʬʭʮʯʰʱʲʳʴʵʶʷʸʹʺʻʼʽʾʿˀˁ˂˃˄˅ˆˇˈˉˊˋˌˍˎˏːˑ˒˓˔˕˖˗˘˙˚˛˜˝˞˟ˠˡˢˣˤ˥˦˧˨˩˪˫ˬ˭ˮ˯˰˱˲˳˴˵˶˷˸˹˺˻˼˽˾˿",
    "΀΁΂΃΄΅Ά·ΈΉΊ΋Ό΍ΎΏΐΑΒΓΔΕΖΗΘΙΚΛΜΝΞΟΠΡ΢ΣΤΥΦΧΨΩΪΫάέήίΰαβγδεζηθικλμνξοπρςστυφχψωϊϋόύώϏϐϑϒϓϔϕϖϗϘϙϚϛϜϝϞϟϠϡϢϣϤϥϦϧϨϩϪϫϬϭϮϯϰϱϲϳϴϵ϶ϷϸϹϺϻϼϽϾϿ",
    "Ҁҁ҂҃҄҅҆҇҈҉ҊҋҌҍҎҏҐґҒғҔҕҖҗҘҙҚқҜҝҞҟҠҡҢңҤҥҦҧҨҩҪҫҬҭҮүҰұҲҳҴҵҶҷҸҹҺһҼҽҾҿӀӁӂӃӄӅӆӇӈӉӊӋӌӍӎӏӐӑӒӓӔӕӖӗӘәӚӛӜӝӞӟӠӡӢӣӤӥӦӧӨөӪӫӬӭӮӯӰӱӲӳӴӵӶӷӸӹӺӻӼӽӾӿ",
    "րցւփքօֆևֈ։֊֋֌֍֎֏֐ְֱֲֳִֵֶַָֹֺֻּֽ֑֖֛֢֣֤֥֦֧֪֚֭֮֒֓֔֕֗֘֙֜֝֞֟֠֡֨֩֫֬֯־ֿ׀ׁׂ׃ׅׄ׆ׇ׈׉׊׋׌׍׎׏אבגדהוזחטיךכלםמןנסעףפץצקרשת׫׬׭׮ׯװױײ׳״׵׶׷׸׹׺׻׼׽׾׿",
    "ڀځڂڃڄڅچڇڈډڊڋڌڍڎڏڐڑڒړڔڕږڗژڙښڛڜڝڞڟڠڡڢڣڤڥڦڧڨکڪګڬڭڮگڰڱڲڳڴڵڶڷڸڹںڻڼڽھڿۀہۂۃۄۅۆۇۈۉۊۋیۍێۏېۑےۓ۔ەۖۗۘۙۚۛۜ۝۞ۣ۟۠ۡۢۤۥۦۧۨ۩۪ۭ۫۬ۮۯ۰۱۲۳۴۵۶۷۸۹ۺۻۼ۽۾ۿ",
    "ހށނރބޅކއވމފދތލގޏސޑޒޓޔޕޖޗޘޙޚޛޜޝޞޟޠޡޢޣޤޥަާިީުޫެޭޮޯްޱ޲޳޴޵޶޷޸޹޺޻޼޽޾޿߀߁߂߃߄߅߆߇߈߉ߊߋߌߍߎߏߐߑߒߓߔߕߖߗߘߙߚߛߜߝߞߟߠߡߢߣߤߥߦߧߨߩߪ߲߫߬߭߮߯߰߱߳ߴߵ߶߷߸߹ߺ߻߼߽߾߿",
    "ࢀࢁࢂࢃࢄࢅࢆࢇ࢈ࢉࢊࢋࢌࢍࢎ࢏࢐࢑࢒࢓࢔࢕࢖࢙࢚࢛ࢗ࢘࢜࢝࢞࢟ࢠࢡࢢࢣࢤࢥࢦࢧࢨࢩࢪࢫࢬࢭࢮࢯࢰࢱࢲࢳࢴࢵࢶࢷࢸࢹࢺࢻࢼࢽࢾࢿࣀࣁࣂࣃࣄࣅࣆࣇࣈࣉ࣏࣐࣑࣒࣓࣊࣋࣌࣍࣎ࣔࣕࣖࣗࣘࣙࣚࣛࣜࣝࣞࣟ࣠࣡࣢ࣰࣱࣲࣣࣦࣩ࣭࣮࣯ࣶࣹࣺࣤࣥࣧࣨ࣪࣫࣬ࣳࣴࣵࣷࣸࣻࣼࣽࣾࣿ",
    "ঀঁংঃ঄অআইঈউঊঋঌ঍঎এঐ঑঒ওঔকখগঘঙচছজঝঞটঠডঢণতথদধন঩পফবভমযর঱ল঳঴঵শষসহ঺঻়ঽািীুূৃৄ৅৆েৈ৉৊োৌ্ৎ৏৐৑৒৓৔৕৖ৗ৘৙৚৛ড়ঢ়৞য়ৠৡৢৣ৤৥০১২৩৪৫৬৭৮৯ৰৱ৲৳৴৵৶৷৸৹৺৻ৼ৽৾৿",
    "઀ઁંઃ઄અઆઇઈઉઊઋઌઍ઎એઐઑ઒ઓઔકખગઘઙચછજઝઞટઠડઢણતથદધન઩પફબભમયર઱લળ઴વશષસહ઺઻઼ઽાિીુૂૃૄૅ૆ેૈૉ૊ોૌ્૎૏ૐ૑૒૓૔૕૖૗૘૙૚૛૜૝૞૟ૠૡૢૣ૤૥૦૧૨૩૪૫૬૭૮૯૰૱૲૳૴૵૶૷૸ૹૺૻૼ૽૾૿",
    "஀஁ஂஃ஄அஆஇஈஉஊ஋஌஍எஏஐ஑ஒஓஔக஖஗஘ஙச஛ஜ஝ஞட஠஡஢ணத஥஦஧நனப஫஬஭மயரறலளழவஶஷஸஹ஺஻஼஽ாிீுூ௃௄௅ெேை௉ொோௌ்௎௏ௐ௑௒௓௔௕௖ௗ௘௙௚௛௜௝௞௟௠௡௢௣௤௥௦௧௨௩௪௫௬௭௮௯௰௱௲௳௴௵௶௷௸௹௺௻௼௽௾௿",
    "ಀಁಂಃ಄ಅಆಇಈಉಊಋಌ಍ಎಏಐ಑ಒಓಔಕಖಗಘಙಚಛಜಝಞಟಠಡಢಣತಥದಧನ಩ಪಫಬಭಮಯರಱಲಳ಴ವಶಷಸಹ಺಻಼ಽಾಿೀುೂೃೄ೅ೆೇೈ೉ೊೋೌ್೎೏೐೑೒೓೔ೕೖ೗೘೙೚೛೜ೝೞ೟ೠೡೢೣ೤೥೦೧೨೩೪೫೬೭೮೯೰ೱೲೳ೴೵೶೷೸೹೺೻೼೽೾೿",
    "඀ඁංඃ඄අආඇඈඉඊඋඌඍඎඏඐඑඒඓඔඕඖ඗඘඙කඛගඝඞඟචඡජඣඤඥඦටඨඩඪණඬතථදධන඲ඳපඵබභමඹයර඼ල඾඿වශෂසහළෆ෇෈෉්෋෌෍෎ාැෑිීු෕ූ෗ෘෙේෛොෝෞෟ෠෡෢෣෤෥෦෧෨෩෪෫෬෭෮෯෰෱ෲෳ෴෵෶෷෸෹෺෻෼෽෾෿",
    "຀ກຂ຃ຄ຅ຆງຈຉຊ຋ຌຍຎຏຐຑຒຓດຕຖທຘນບປຜຝພຟຠມຢຣ຤ລ຦ວຨຩສຫຬອຮຯະັາຳິີຶື຺ຸູົຼຽ຾຿ເແໂໃໄ໅ໆ໇່້໊໋໌ໍ໎໏໐໑໒໓໔໕໖໗໘໙໚໛ໜໝໞໟ໠໡໢໣໤໥໦໧໨໩໪໫໬໭໮໯໰໱໲໳໴໵໶໷໸໹໺໻໼໽໾໿",
    "྄ཱྀྀྂྃ྅྆྇ྈྉྊྋྌྍྎྏྐྑྒྒྷྔྕྖྗ྘ྙྚྛྜྜྷྞྟྠྡྡྷྣྤྥྦྦྷྨྩྪྫྫྷྭྮྯྰྱྲླྴྵྶྷྸྐྵྺྻྼ྽྾྿࿀࿁࿂࿃࿄࿅࿆࿇࿈࿉࿊࿋࿌࿍࿎࿏࿐࿑࿒࿓࿔࿕࿖࿗࿘࿙࿚࿛࿜࿝࿞࿟࿠࿡࿢࿣࿤࿥࿦࿧࿨࿩࿪࿫࿬࿭࿮࿯࿰࿱࿲࿳࿴࿵࿶࿷࿸࿹࿺࿻࿼࿽࿾࿿",
    "ႀႁႂႃႄႅႆႇႈႉႊႋႌႍႎႏ႐႑႒႓႔႕႖႗႘႙ႚႛႜႝ႞႟ႠႡႢႣႤႥႦႧႨႩႪႫႬႭႮႯႰႱႲႳႴႵႶႷႸႹႺႻႼႽႾႿჀჁჂჃჄჅ჆Ⴧ჈჉჊჋჌Ⴭ჎჏აბგდევზთიკლმნოპჟრსტუფქღყშჩცძწჭხჯჰჱჲჳჴჵჶჷჸჹჺ჻ჼჽჾჿ",
    "ᆀᆁᆂᆃᆄᆅᆆᆇᆈᆉᆊᆋᆌᆍᆎᆏᆐᆑᆒᆓᆔᆕᆖᆗᆘᆙᆚᆛᆜᆝᆞᆟᆠᆡᆢᆣᆤᆥᆦᆧᆨᆩᆪᆫᆬᆭᆮᆯᆰᆱᆲᆳᆴᆵᆶᆷᆸᆹᆺᆻᆼᆽᆾᆿᇀᇁᇂᇃᇄᇅᇆᇇᇈᇉᇊᇋᇌᇍᇎᇏᇐᇑᇒᇓᇔᇕᇖᇗᇘᇙᇚᇛᇜᇝᇞᇟᇠᇡᇢᇣᇤᇥᇦᇧᇨᇩᇪᇫᇬᇭᇮᇯᇰᇱᇲᇳᇴᇵᇶᇷᇸᇹᇺᇻᇼᇽᇾᇿ",
    "ኀኁኂኃኄኅኆኇኈ኉ኊኋኌኍ኎኏ነኑኒናኔንኖኗኘኙኚኛኜኝኞኟአኡኢኣኤእኦኧከኩኪካኬክኮኯኰ኱ኲኳኴኵ኶኷ኸኹኺኻኼኽኾ኿ዀ዁ዂዃዄዅ዆዇ወዉዊዋዌውዎዏዐዑዒዓዔዕዖ዗ዘዙዚዛዜዝዞዟዠዡዢዣዤዥዦዧየዩዪያዬይዮዯደዱዲዳዴድዶዷዸዹዺዻዼዽዾዿ",
    "ᎀᎁᎂᎃᎄᎅᎆᎇᎈᎉᎊᎋᎌᎍᎎᎏ᎐᎑᎒᎓᎔᎕᎖᎗᎘᎙᎚᎛᎜᎝᎞᎟ᎠᎡᎢᎣᎤᎥᎦᎧᎨᎩᎪᎫᎬᎭᎮᎯᎰᎱᎲᎳᎴᎵᎶᎷᎸᎹᎺᎻᎼᎽᎾᎿᏀᏁᏂᏃᏄᏅᏆᏇᏈᏉᏊᏋᏌᏍᏎᏏᏐᏑᏒᏓᏔᏕᏖᏗᏘᏙᏚᏛᏜᏝᏞᏟᏠᏡᏢᏣᏤᏥᏦᏧᏨᏩᏪᏫᏬᏭᏮᏯᏰᏱᏲᏳᏴᏵ᏶᏷ᏸᏹᏺᏻᏼᏽ᏾᏿",
    "ᒀᒁᒂᒃᒄᒅᒆᒇᒈᒉᒊᒋᒌᒍᒎᒏᒐᒑᒒᒓᒔᒕᒖᒗᒘᒙᒚᒛᒜᒝᒞᒟᒠᒡᒢᒣᒤᒥᒦᒧᒨᒩᒪᒫᒬᒭᒮᒯᒰᒱᒲᒳᒴᒵᒶᒷᒸᒹᒺᒻᒼᒽᒾᒿᓀᓁᓂᓃᓄᓅᓆᓇᓈᓉᓊᓋᓌᓍᓎᓏᓐᓑᓒᓓᓔᓕᓖᓗᓘᓙᓚᓛᓜᓝᓞᓟᓠᓡᓢᓣᓤᓥᓦᓧᓨᓩᓪᓫᓬᓭᓮᓯᓰᓱᓲᓳᓴᓵᓶᓷᓸᓹᓺᓻᓼᓽᓾᓿ",
    "ᖀᖁᖂᖃᖄᖅᖆᖇᖈᖉᖊᖋᖌᖍᖎᖏᖐᖑᖒᖓᖔᖕᖖᖗᖘᖙᖚᖛᖜᖝᖞᖟᖠᖡᖢᖣᖤᖥᖦᖧᖨᖩᖪᖫᖬᖭᖮᖯᖰᖱᖲᖳᖴᖵᖶᖷᖸᖹᖺᖻᖼᖽᖾᖿᗀᗁᗂᗃᗄᗅᗆᗇᗈᗉᗊᗋᗌᗍᗎᗏᗐᗑᗒᗓᗔᗕᗖᗗᗘᗙᗚᗛᗜᗝᗞᗟᗠᗡᗢᗣᗤᗥᗦᗧᗨᗩᗪᗫᗬᗭᗮᗯᗰᗱᗲᗳᗴᗵᗶᗷᗸᗹᗺᗻᗼᗽᗾᗿ",
    " ᚁᚂᚃᚄᚅᚆᚇᚈᚉᚊᚋᚌᚍᚎᚏᚐᚑᚒᚓᚔᚕᚖᚗᚘᚙᚚ᚛᚜᚝᚞᚟ᚠᚡᚢᚣᚤᚥᚦᚧᚨᚩᚪᚫᚬᚭᚮᚯᚰᚱᚲᚳᚴᚵᚶᚷᚸᚹᚺᚻᚼᚽᚾᚿᛀᛁᛂᛃᛄᛅᛆᛇᛈᛉᛊᛋᛌᛍᛎᛏᛐᛑᛒᛓᛔᛕᛖᛗᛘᛙᛚᛛᛜᛝᛞᛟᛠᛡᛢᛣᛤᛥᛦᛧᛨᛩᛪ᛫᛬᛭ᛮᛯᛰᛱᛲᛳᛴᛵᛶᛷᛸ᛹᛺᛻᛼᛽᛾᛿",
    "កខគឃងចឆជឈញដឋឌឍណតថទធនបផពភមយរលវឝឞសហឡអឣឤឥឦឧឨឩឪឫឬឭឮឯឰឱឲឳ឴឵ាិីឹឺុូួើឿៀេែៃោៅំះៈ៉៊់៌៍៎៏័៑្៓។៕៖ៗ៘៙៚៛ៜ៝៞៟០១២៣៤៥៦៧៨៩៪៫៬៭៮៯៰៱៲៳៴៵៶៷៸៹៺៻៼៽៾៿",
    "ᢀᢁᢂᢃᢄᢅᢆᢇᢈᢉᢊᢋᢌᢍᢎᢏᢐᢑᢒᢓᢔᢕᢖᢗᢘᢙᢚᢛᢜᢝᢞᢟᢠᢡᢢᢣᢤᢥᢦᢧᢨᢩᢪ᢫᢬᢭᢮᢯ᢰᢱᢲᢳᢴᢵᢶᢷᢸᢹᢺᢻᢼᢽᢾᢿᣀᣁᣂᣃᣄᣅᣆᣇᣈᣉᣊᣋᣌᣍᣎᣏᣐᣑᣒᣓᣔᣕᣖᣗᣘᣙᣚᣛᣜᣝᣞᣟᣠᣡᣢᣣᣤᣥᣦᣧᣨᣩᣪᣫᣬᣭᣮᣯᣰᣱᣲᣳᣴᣵ᣶᣷᣸᣹᣺᣻᣼᣽᣾᣿",
    "ᦀᦁᦂᦃᦄᦅᦆᦇᦈᦉᦊᦋᦌᦍᦎᦏᦐᦑᦒᦓᦔᦕᦖᦗᦘᦙᦚᦛᦜᦝᦞᦟᦠᦡᦢᦣᦤᦥᦦᦧᦨᦩᦪᦫ᦬᦭᦮᦯ᦰᦱᦲᦳᦴᦵᦶᦷᦸᦹᦺᦻᦼᦽᦾᦿᧀᧁᧂᧃᧄᧅᧆᧇᧈᧉ᧊᧋᧌᧍᧎᧏᧐᧑᧒᧓᧔᧕᧖᧗᧘᧙᧚᧛᧜᧝᧞᧟᧠᧡᧢᧣᧤᧥᧦᧧᧨᧩᧪᧫᧬᧭᧮᧯᧰᧱᧲᧳᧴᧵᧶᧷᧸᧹᧺᧻᧼᧽᧾᧿",
    "᪀᪁᪂᪃᪄᪅᪆᪇᪈᪉᪊᪋᪌᪍᪎᪏᪐᪑᪒᪓᪔᪕᪖᪗᪘᪙᪚᪛᪜᪝᪞᪟᪠᪡᪢᪣᪤᪥᪦ᪧ᪨᪩᪪᪫᪬᪭᪮᪯᪵᪶᪷᪸᪹᪺᪽᪰᪱᪲᪳᪴᪻᪼᪾ᪿᫀ᫃᫄᫊᫁᫂᫅᫆᫇᫈᫉᫋ᫌᫍᫎ᫏᫐᫑᫒᫓᫔᫕᫖᫗᫘᫙᫚᫛᫜᫝᫞᫟᫠᫡᫢᫣᫤᫥᫦᫧᫨᫩᫪᫫᫬᫭᫮᫯᫰᫱᫲᫳᫴᫵᫶᫷᫸᫹᫺᫻᫼᫽᫾᫿",
    "ᮀᮁᮂᮃᮄᮅᮆᮇᮈᮉᮊᮋᮌᮍᮎᮏᮐᮑᮒᮓᮔᮕᮖᮗᮘᮙᮚᮛᮜᮝᮞᮟᮠᮡᮢᮣᮤᮥᮦᮧᮨᮩ᮪᮫ᮬᮭᮮᮯ᮰᮱᮲᮳᮴᮵᮶᮷᮸᮹ᮺᮻᮼᮽᮾᮿᯀᯁᯂᯃᯄᯅᯆᯇᯈᯉᯊᯋᯌᯍᯎᯏᯐᯑᯒᯓᯔᯕᯖᯗᯘᯙᯚᯛᯜᯝᯞᯟᯠᯡᯢᯣᯤᯥ᯦ᯧᯨᯩᯪᯫᯬᯭᯮᯯᯰᯱ᯲᯳᯴᯵᯶᯷᯸᯹᯺᯻᯼᯽᯾᯿",
    "ᲀᲁᲂᲃᲄᲅᲆᲇᲈᲉᲊ᲋᲌᲍᲎᲏ᲐᲑᲒᲓᲔᲕᲖᲗᲘᲙᲚᲛᲜᲝᲞᲟᲠᲡᲢᲣᲤᲥᲦᲧᲨᲩᲪᲫᲬᲭᲮᲯᲰᲱᲲᲳᲴᲵᲶᲷᲸᲹᲺ᲻᲼ᲽᲾᲿ᳀᳁᳂᳃᳄᳅᳆᳇᳈᳉᳊᳋᳌᳍᳎᳏᳐᳑᳒᳓᳔᳕᳖᳗᳘᳙᳜᳝᳞᳟᳚᳛᳠᳡᳢᳣᳤᳥᳦᳧᳨ᳩᳪᳫᳬ᳭ᳮᳯᳰᳱᳲᳳ᳴ᳵᳶ᳷᳸᳹ᳺ᳻᳼᳽᳾᳿",
    "ᶀᶁᶂᶃᶄᶅᶆᶇᶈᶉᶊᶋᶌᶍᶎᶏᶐᶑᶒᶓᶔᶕᶖᶗᶘᶙᶚᶛᶜᶝᶞᶟᶠᶡᶢᶣᶤᶥᶦᶧᶨᶩᶪᶫᶬᶭᶮᶯᶰᶱᶲᶳᶴᶵᶶᶷᶸᶹᶺᶻᶼᶽᶾᶿ᷐᷎᷺᷂᷊᷏᷹᷽᷿᷷᷸᷀᷁᷃᷄᷅᷆᷇᷈᷉᷋᷌᷑᷒ᷓᷔᷕᷖᷗᷘᷙᷚᷛᷜᷝᷞᷟᷠᷡᷢᷣᷤᷥᷦᷧᷨᷩᷪᷫᷬᷭᷮᷯᷰᷱᷲᷳᷴ᷵᷻᷾᷶᷼᷍",
    "ẀẁẂẃẄẅẆẇẈẉẊẋẌẍẎẏẐẑẒẓẔẕẖẗẘẙẚẛẜẝẞẟẠạẢảẤấẦầẨẩẪẫẬậẮắẰằẲẳẴẵẶặẸẹẺẻẼẽẾếỀềỂểỄễỆệỈỉỊịỌọỎỏỐốỒồỔổỖỗỘộỚớỜờỞởỠỡỢợỤụỦủỨứỪừỬửỮữỰựỲỳỴỵỶỷỸỹỺỻỼỽỾỿ",
    "ᾀᾁᾂᾃᾄᾅᾆᾇᾈᾉᾊᾋᾌᾍᾎᾏᾐᾑᾒᾓᾔᾕᾖᾗᾘᾙᾚᾛᾜᾝᾞᾟᾠᾡᾢᾣᾤᾥᾦᾧᾨᾩᾪᾫᾬᾭᾮᾯᾰᾱᾲᾳᾴ᾵ᾶᾷᾸᾹᾺΆᾼ᾽ι᾿῀῁ῂῃῄ῅ῆῇῈΈῊΉῌ῍῎῏ῐῑῒΐ῔῕ῖῗῘῙῚΊ῜῝῞῟ῠῡῢΰῤῥῦῧῨῩῪΎῬ῭΅`῰῱ῲῳῴ῵ῶῷῸΌῺΏῼ´῾῿"
  >>

Chars(s) == {SubSeq(s, i, i) : i \in 1..Len(s)}

IndexIn(s, c) == CHOOSE i \in 1..Len(s) : SubSeq(s, i, i) = c

AsciiTo95 == ControlChars \o PrintableTo95

AsciiOrd ==
  [c \in Chars(AsciiTo95) \cup Chars(PrintableFrom97) |->
     IF c \in Chars(AsciiTo95) THEN IndexIn(AsciiTo95, c)
     ELSE 96 + IndexIn(PrintableFrom97, c)]

HighChars == [h \in 0..(Len(HighRows) - 1) |-> Chars(HighRows[h + 1])]

\* ord(c): the code point of a character of the alphabet.
ord(c) ==
  IF c \in DOMAIN AsciiOrd THEN AsciiOrd[c]
  ELSE LET h == CHOOSE r \in DOMAIN HighChars : c \in HighChars[r] IN
       256 * h + 127 + IndexIn(HighRows[h + 1], c)

\* The code points of a string.
codepoints(s) == [i \in 1..Len(s) |-> ord(SubSeq(s, i, i))]

\* The code point at position i of a text, -1 outside the text.
CharAt(text, i) == IF i >= 1 /\ i <= Len(text) THEN text[i] ELSE -1

\* <<first, last, step, delta>>: the code points first, first + step, ...,
\* last have the lower case that is delta further on.  Every other code
\* point but U+0130 is its own lower case.
LowerRules ==
  {
    <<65, 90, 1, 32>>, <<192, 214, 1, 32>>, <<216, 222, 1, 32>>, <<256, 302, 2, 1>>, <<306, 310, 2, 1>>,
    <<313, 327, 2, 1>>, <<330, 374, 2, 1>>, <<376, 376, 1, -121>>, <<377, 381, 2, 1>>, <<385, 385, 1, 210>>,
    <<386, 388, 2, 1>>, <<390, 390, 1, 206>>, <<391, 391, 1, 1>>, <<393, 394, 1, 205>>, <<395, 395, 1, 1>>,
    <<398, 398, 1, 79>>, <<399, 399, 1, 202>>, <<400, 400, 1, 203>>, <<401, 401, 1, 1>>, <<403, 403, 1, 205>>,
    <<404, 404, 1, 207>>, <<406, 406, 1, 211>>, <<407, 407, 1, 209>>, <<408, 408, 1, 1>>, <<412, 412, 1, 211>>,
    <<413, 413, 1, 213>>, <<415, 415, 1, 214>>, <<416, 420, 2, 1>>, <<422, 422, 1, 218>>, <<423, 423, 1, 1>>,
    <<425, 425, 1, 218>>, <<428, 428, 1, 1>>, <<430, 430, 1, 218>>, <<431, 431, 1, 1>>, <<433, 434, 1, 217>>,
    <<435, 437, 2, 1>>, <<439, 439, 1, 219>>, <<440, 440, 1, 1>>, <<444, 444, 1, 1>>, <<452, 452, 1, 2>>,
    <<453, 453, 1, 1>>, <<455, 455, 1, 2>>, <<456, 456, 1, 1>>, <<458, 458, 1, 2>>, <<459, 475, 2, 1>>,
    <<478, 494, 2, 1>>, <<497, 497, 1, 2>>, <<498, 500, 2, 1>>, <<502, 502, 1, -97>>, <<503, 503, 1, -56>>,
    <<504, 542, 2, 1>>, <<544, 544, 1, -130>>, <<546, 562, 2, 1>>, <<570, 570, 1, 10795>>, <<571, 571, 1, 1>>,
    <<573, 573, 1, -163>>, <<574, 574, 1, 10792>>, <<577, 577, 1, 1>>, <<579, 579, 1, -195>>, <<580, 580, 1, 69>>,
    <<581, 581, 1, 71>>, <<582, 590, 2, 1>>, <<880, 882, 2, 1>>, <<886, 886, 1, 1>>, <<895, 895, 1, 116>>,
    <<902, 902, 1, 38>>, <<904, 906, 1, 37>>, <<908, 908, 1, 64>>, <<910, 911, 1, 63>>, <<913, 929, 1, 32>>,
    <<931, 939, 1, 32>>, <<975, 975, 1, 8>>, <<984, 1006, 2, 1>>, <<1012, 1012, 1, -60>>, <<1015, 1015, 1, 1>>,
    <<1017, 1017, 1, -7>>, <<1018, 1018, 1, 1>>, <<1021, 1023, 1, -130>>, <<1024, 1039, 1, 80>>, <<1040, 1071, 1, 32>>,
    <<1120, 1152, 2, 1>>, <<1162, 1214, 2, 1>>, <<1216, 1216, 1, 15>>, <<1217, 1229, 2, 1>>, <<1232, 1326, 2, 1>>,
    <<1329, 1366, 1, 48>>, <<4256, 4293, 1, 7264>>, <<4295, 4295, 1, 7264>>, <<4301, 4301, 1, 7264>>, <<5024, 5103, 1, 38864>>,
    <<5104, 5109, 1, 8>>, <<7312, 7354, 1, -3008>>, <<7357, 7359, 1, -3008>>, <<7680, 7828, 2, 1>>, <<7838, 7838, 1, -7615>>,
    <<7840, 7934, 2, 1>>, <<7944, 7951, 1, -8>>, <<7960, 7965, 1, -8>>, <<7976, 7983, 1, -8>>, <<7992, 7999, 1, -8>>,
    <<8008, 8013, 1, -8>>, <<8025, 8031, 2, -8>>, <<8040, 8047, 1, -8>>, <<8072, 8079, 1, -8>>, <<8088, 8095, 1, -8>>,
    <<8104, 8111, 1, -8>>, <<8120, 8121, 1, -8>>, <<8122, 8123, 1, -74>>, <<8124, 8124, 1, -9>>, <<8136, 8139, 1, -86>>,
    <<8140, 8140, 1, -9>>, <<8152, 8153, 1, -8>>, <<8154, 8155, 1, -100>>, <<8168, 8169, 1, -8>>, <<8170, 8171, 1, -112>>,
    <<8172, 8172, 1, -7>>, <<8184, 8185, 1, -128>>, <<8186, 8187, 1, -126>>, <<8188, 8188, 1, -9>>, <<8486, 8486, 1, -7517>>,
    <<8490, 8490, 1, -8383>>, <<8491, 8491, 1, -8262>>, <<8498, 8498, 1, 28>>, <<8544, 8559, 1, 16>>, <<8579, 8579, 1, 1>>,
    <<9398, 9423, 1, 26>>, <<11264, 11311, 1, 48>>, <<11360, 11360, 1, 1>>, <<11362, 11362, 1, -10743>>, <<11363, 11363, 1, -3814>>,
    <<11364, 11364, 1, -10727>>, <<11367, 11371, 2, 1>>, <<11373, 11373, 1, -10780>>, <<11374, 11374, 1, -10749>>, <<11375, 11375, 1, -10783>>,
    <<11376, 11376, 1, -10782>>, <<11378, 11378, 1, 1>>, <<11381, 11381, 1, 1>>, <<11390, 11391, 1, -10815>>, <<11392, 11490, 2, 1>>,
    <<11499, 11501, 2, 1>>, <<11506, 11506, 1, 1>>, <<42560, 42604, 2, 1>>, <<42624, 42650, 2, 1>>, <<42786, 42798, 2, 1>>,
    <<42802, 42862, 2, 1>>, <<42873, 42875, 2, 1>>, <<42877, 42877, 1, -35332>>, <<42878, 42886, 2, 1>>, <<42891, 42891, 1, 1>>,
    <<42893, 42893, 1, -42280>>, <<42896, 42898, 2, 1>>, <<42902, 42920, 2, 1>>, <<42922, 42922, 1, -42308>>, <<42923, 42923, 1, -42319>>,
    <<42924, 42924, 1, -42315>>, <<42925, 42925, 1, -42305>>, <<42926, 42926, 1, -42308>>, <<42928, 42928, 1, -42258>>, <<42929, 42929, 1, -42282>>,
    <<42930, 42930, 1, -42261>>, <<42931, 42931, 1, 928>>, <<42932, 42946, 2, 1>>, <<42948, 42948, 1, -48>>, <<42949, 42949, 1, -42307>>,
    <<42950, 42950, 1, -35384>>, <<42951, 42953, 2, 1>>, <<42960, 42960, 1, 1>>, <<42966, 42968, 2, 1>>, <<42997, 42997, 1, 1>>,
    <<65313, 65338, 1, 32>>, <<66560, 66599, 1, 40>>, <<66736, 66771, 1, 40>>, <<66928, 66938, 1, 39>>, <<66940, 66954, 1, 39>>,
    <<66956, 66962, 1, 39>>, <<66964, 66965, 1, 39>>, <<68736, 68786, 1, 64>>, <<71840, 71871, 1, 32>>, <<93760, 93791, 1, 32>>,
    <<125184, 125217, 1, 34>>
  }

\* <<first, last>>: the runs of case-ignorable code points.
CaseIgnorable ==
  <<
    <<39, 39>>, <<46, 46>>, <<58, 58>>, <<94, 94>>, <<96, 96>>, <<168, 168>>,
    <<173, 173>>, <<175, 175>>, <<180, 180>>, <<183, 184>>, <<688, 879>>, <<884, 885>>,
    <<890, 890>>, <<900, 901>>, <<903, 903>>, <<1155, 1161>>, <<1369, 1369>>, <<1375, 1375>>,
    <<1425, 1469>>, <<1471, 1471>>, <<1473, 1474>>, <<1476, 1477>>, <<1479, 1479>>, <<1524, 1524>>,
    <<1536, 1541>>, <<1552, 1562>>, <<1564, 1564>>, <<1600, 1600>>, <<1611, 1631>>, <<1648, 1648>>,
    <<1750, 1757>>, <<1759, 1768>>, <<1770, 1773>>, <<1807, 1807>>, <<1809, 1809>>, <<1840, 1866>>,
    <<1958, 1968>>, <<2027, 2037>>, <<2042, 2042>>, <<2045, 2045>>, <<2070, 2093>>, <<2137, 2139>>,
    <<2184, 2184>>, <<2192, 2193>>, <<2200, 2207>>, <<2249, 2306>>, <<2362, 2362>>, <<2364, 2364>>,
    <<2369, 2376>>, <<2381, 2381>>, <<2385, 2391>>, <<2402, 2403>>, <<2417, 2417>>, <<2433, 2433>>,
    <<2492, 2492>>, <<2497, 2500>>, <<2509, 2509>>, <<2530, 2531>>, <<2558, 2558>>, <<2561, 2562>>,
    <<2620, 2620>>, <<2625, 2626>>, <<2631, 2632>>, <<2635, 2637>>, <<2641, 2641>>, <<2672, 2673>>,
    <<2677, 2677>>, <<2689, 2690>>, <<2748, 2748>>, <<2753, 2757>>, <<2759, 2760>>, <<2765, 2765>>,
    <<2786, 2787>>, <<2810, 2815>>, <<2817, 2817>>, <<2876, 2876>>, <<2879, 2879>>, <<2881, 2884>>,
    <<2893, 2893>>, <<2901, 2902>>, <<2914, 2915>>, <<2946, 2946>>, <<3008, 3008>>, <<3021, 3021>>,
    <<3072, 3072>>, <<3076, 3076>>, <<3132, 3132>>, <<3134, 3136>>, <<3142, 3144>>, <<3146, 3149>>,
    <<3157, 3158>>, <<3170, 3171>>, <<3201, 3201>>, <<3260, 3260>>, <<3263, 3263>>, <<3270, 3270>>,
    <<3276, 3277>>, <<3298, 3299>>, <<3328, 3329>>, <<3387, 3388>>, <<3393, 3396>>, <<3405, 3405>>,
    <<3426, 3427>>, <<3457, 3457>>, <<3530, 3530>>, <<3538, 3540>>, <<3542, 3542>>, <<3633, 3633>>,
    <<3636, 3642>>, <<3654, 3662>>, <<3761, 3761>>, <<3764, 3772>>, <<3782, 3782>>, <<3784, 3789>>,
    <<3864, 3865>>, <<3893, 3893>>, <<3895, 3895>>, <<3897, 3897>>, <<3953, 3966>>, <<3968, 3972>>,
    <<3974, 3975>>, <<3981, 3991>>, <<3993, 4028>>, <<4038, 4038>>, <<4141, 4144>>, <<4146, 4151>>,
    <<4153, 4154>>, <<4157, 4158>>, <<4184, 4185>>, <<4190, 4192>>, <<4209, 4212>>, <<4226, 4226>>,
    <<4229, 4230>>, <<4237, 4237>>, <<4253, 4253>>, <<4348, 4348>>, <<4957, 4959>>, <<5906, 5908>>,
    <<5938, 5939>>, <<5970, 5971>>, <<6002, 6003>>, <<6068, 6069>>, <<6071, 6077>>, <<6086, 6086>>,
    <<6089, 6099>>, <<6103, 6103>>, <<6109, 6109>>, <<6155, 6159>>, <<6211, 6211>>, <<6277, 6278>>,
    <<6313, 6313>>, <<6432, 6434>>, <<6439, 6440>>, <<6450, 6450>>, <<6457, 6459>>, <<6679, 6680>>,
    <<6683, 6683>>, <<6742, 6742>>, <<6744, 6750>>, <<6752, 6752>>, <<6754, 6754>>, <<6757, 6764>>,
    <<6771, 6780>>, <<6783, 6783>>, <<6823, 6823>>, <<6832, 6862>>, <<6912, 6915>>, <<6964, 6964>>,
    <<6966, 6970>>, <<6972, 6972>>, <<6978, 6978>>, <<7019, 7027>>, <<7040, 7041>>, <<7074, 7077>>,
    <<7080, 7081>>, <<7083, 7085>>, <<7142, 7142>>, <<7144, 7145>>, <<7149, 7149>>, <<7151, 7153>>,
    <<7212, 7219>>, <<7222, 7223>>, <<7288, 7293>>, <<7376, 7378>>, <<7380, 7392>>, <<7394, 7400>>,
    <<7405, 7405>>, <<7412, 7412>>, <<7416, 7417>>, <<7468, 7530>>, <<7544, 7544>>, <<7579, 7679>>,
    <<8125, 8125>>, <<8127, 8129>>, <<8141, 8143>>, <<8157, 8159>>, <<8173, 8175>>, <<8189, 8190>>,
    <<8203, 8207>>, <<8216, 8217>>, <<8228, 8228>>, <<8231, 8231>>, <<8234, 8238>>, <<8288, 8292>>,
    <<8294, 8303>>, <<8305, 8305>>, <<8319, 8319>>, <<8336, 8348>>, <<8400, 8432>>, <<11388, 11389>>,
    <<11503, 11505>>, <<11631, 11631>>, <<11647, 11647>>, <<11744, 11775>>, <<11823, 11823>>, <<12293, 12293>>,
    <<12330, 12333>>, <<12337, 12341>>, <<12347, 12347>>, <<12441, 12446>>, <<12540, 12542>>, <<40981, 40981>>,
    <<42232, 42237>>, <<42508, 42508>>, <<42607, 42610>>, <<42612, 42621>>, <<42623, 42623>>, <<42652, 42655>>,
    <<42736, 42737>>, <<42752, 42785>>, <<42864, 42864>>, <<42888, 42890>>, <<42994, 42996>>, <<43000, 43001>>,
    <<43010, 43010>>, <<43014, 43014>>, <<43019, 43019>>, <<43045, 43046>>, <<43052, 43052>>, <<43204, 43205>>,
    <<43232, 43249>>, <<43263, 43263>>, <<43302, 43309>>, <<43335, 43345>>, <<43392, 43394>>, <<43443, 43443>>,
    <<43446, 43449>>, <<43452, 43453>>, <<43471, 43471>>, <<43493, 43494>>, <<43561, 43566>>, <<43569, 43570>>,
    <<43573, 43574>>, <<43587, 43587>>, <<43596, 43596>>, <<43632, 43632>>, <<43644, 43644>>, <<43696, 43696>>,
    <<43698, 43700>>, <<43703, 43704>>, <<43710, 43711>>, <<43713, 43713>>, <<43741, 43741>>, <<43756, 43757>>,
    <<43763, 43764>>, <<43766, 43766>>, <<43867, 43871>>, <<43881, 43883>>, <<44005, 44005>>, <<44008, 44008>>,
    <<44013, 44013>>, <<64286, 64286>>, <<64434, 64450>>, <<65024, 65039>>, <<65043, 65043>>, <<65056, 65071>>,
    <<65106, 65106>>, <<65109, 65109>>, <<65279, 65279>>, <<65287, 65287>>, <<65294, 65294>>, <<65306, 65306>>,
    <<65342, 65342>>, <<65344, 65344>>, <<65392, 65392>>, <<65438, 65439>>, <<65507, 65507>>, <<65529, 65531>>,
    <<66045, 66045>>, <<66272, 66272>>, <<66422, 66426>>, <<67456, 67461>>, <<67463, 67504>>, <<67506, 67514>>,
    <<68097, 68099>>, <<68101, 68102>>, <<68108, 68111>>, <<68152, 68154>>, <<68159, 68159>>, <<68325, 68326>>,
    <<68900, 68903>>, <<69291, 69292>>, <<69446, 69456>>, <<69506, 69509>>, <<69633, 69633>>, <<69688, 69702>>,
    <<69744, 69744>>, <<69747, 69748>>, <<69759, 69761>>, <<69811, 69814>>, <<69817, 69818>>, <<69821, 69821>>,
    <<69826, 69826>>, <<69837, 69837>>, <<69888, 69890>>, <<69927, 69931>>, <<69933, 69940>>, <<70003, 70003>>,
    <<70016, 70017>>, <<70070, 70078>>, <<70089, 70092>>, <<70095, 70095>>, <<70191, 70193>>, <<70196, 70196>>,
    <<70198, 70199>>, <<70206, 70206>>, <<70367, 70367>>, <<70371, 70378>>, <<70400, 70401>>, <<70459, 70460>>,
    <<70464, 70464>>, <<70502, 70508>>, <<70512, 70516>>, <<70712, 70719>>, <<70722, 70724>>, <<70726, 70726>>,
    <<70750, 70750>>, <<70835, 70840>>, <<70842, 70842>>, <<70847, 70848>>, <<70850, 70851>>, <<71090, 71093>>,
    <<71100, 71101>>, <<71103, 71104>>, <<71132, 71133>>, <<71219, 71226>>, <<71229, 71229>>, <<71231, 71232>>,
    <<71339, 71339>>, <<71341, 71341>>, <<71344, 71349>>, <<71351, 71351>>, <<71453, 71455>>, <<71458, 71461>>,
    <<71463, 71467>>, <<71727, 71735>>, <<71737, 71738>>, <<71995, 71996>>, <<71998, 71998>>, <<72003, 72003>>,
    <<72148, 72151>>, <<72154, 72155>>, <<72160, 72160>>, <<72193, 72202>>, <<72243, 72248>>, <<72251, 72254>>,
    <<72263, 72263>>, <<72273, 72278>>, <<72281, 72283>>, <<72330, 72342>>, <<72344, 72345>>, <<72752, 72758>>,
    <<72760, 72765>>, <<72767, 72767>>, <<72850, 72871>>, <<72874, 72880>>, <<72882, 72883>>, <<72885, 72886>>,
    <<73009, 73014>>, <<73018, 73018>>, <<73020, 73021>>, <<73023, 73029>>, <<73031, 73031>>, <<73104, 73105>>,
    <<73109, 73109>>, <<73111, 73111>>, <<73459, 73460>>, <<78896, 78904>>, <<92912, 92916>>, <<92976, 92982>>,
    <<92992, 92995>>, <<94031, 94031>>, <<94095, 94111>>, <<94176, 94177>>, <<94179, 94180>>, <<110576, 110579>>,
    <<110581, 110587>>, <<110589, 110590>>, <<113821, 113822>>, <<113824, 113827>>, <<118528, 118573>>, <<118576, 118598>>,
    <<119143, 119145>>, <<119155, 119170>>, <<119173, 119179>>, <<119210, 119213>>, <<119362, 119364>>, <<121344, 121398>>,
    <<121403, 121452>>, <<121461, 121461>>, <<121476, 121476>>, <<121499, 121503>>, <<121505, 121519>>, <<122880, 122886>>,
    <<122888, 122904>>, <<122907, 122913>>, <<122915, 122916>>, <<122918, 122922>>, <<123184, 123197>>, <<123566, 123566>>,
    <<123628, 123631>>, <<125136, 125142>>, <<125252, 125259>>, <<127995, 127999>>, <<917505, 917505>>, <<917536, 917631>>,
    <<917760, 917999>>
  >>

\* <<first, last>>: the runs of cased code points that are not
\* case-ignorable.
Cased ==
  <<
    <<65, 90>>, <<97, 122>>, <<170, 170>>, <<181, 181>>, <<186, 186>>, <<192, 214>>,
    <<216, 246>>, <<248, 442>>, <<444, 447>>, <<452, 659>>, <<661, 687>>, <<880, 883>>,
    <<886, 887>>, <<891, 893>>, <<895, 895>>, <<902, 902>>, <<904, 906>>, <<908, 908>>,
    <<910, 929>>, <<931, 1013>>, <<1015, 1153>>, <<1162, 1327>>, <<1329, 1366>>, <<1376, 1416>>,
    <<4256, 4293>>, <<4295, 4295>>, <<4301, 4301>>, <<4304, 4346>>, <<4349, 4351>>, <<5024, 5109>>,
    <<5112, 5117>>, <<7296, 7304>>, <<7312, 7354>>, <<7357, 7359>>, <<7424, 7467>>, <<7531, 7543>>,
    <<7545, 7578>>, <<7680, 7957>>, <<7960, 7965>>, <<7968, 8005>>, <<8008, 8013>>, <<8016, 8023>>,
    <<8025, 8025>>, <<8027, 8027>>, <<8029, 8029>>, <<8031, 8061>>, <<8064, 8116>>, <<8118, 8124>>,
    <<8126, 8126>>, <<8130, 8132>>, <<8134, 8140>>, <<8144, 8147>>, <<8150, 8155>>, <<8160, 8172>>,
    <<8178, 8180>>, <<8182, 8188>>, <<8450, 8450>>, <<8455, 8455>>, <<8458, 8467>>, <<8469, 8469>>,
    <<8473, 8477>>, <<8484, 8484>>, <<8486, 8486>>, <<8488, 8488>>, <<8490, 8493>>, <<8495, 8500>>,
    <<8505, 8505>>, <<8508, 8511>>, <<8517, 8521>>, <<8526, 8526>>, <<8544, 8575>>, <<8579, 8580>>,
    <<9398, 9449>>, <<11264, 11387>>, <<11390, 11492>>, <<11499, 11502>>, <<11506, 11507>>, <<11520, 11557>>,
    <<11559, 11559>>, <<11565, 11565>>, <<42560, 42605>>, <<42624, 42651>>, <<42786, 42863>>, <<42865, 42887>>,
    <<42891, 42894>>, <<42896, 42954>>, <<42960, 42961>>, <<42963, 42963>>, <<42965, 42969>>, <<42997, 42998>>,
    <<43002, 43002>>, <<43824, 43866>>, <<43872, 43880>>, <<43888, 43967>>, <<64256, 64262>>, <<64275, 64279>>,
    <<65313, 65338>>, <<65345, 65370>>, <<66560, 66639>>, <<66736, 66771>>, <<66776, 66811>>, <<66928, 66938>>,
    <<66940, 66954>>, <<66956, 66962>>, <<66964, 66965>>, <<66967, 66977>>, <<66979, 66993>>, <<66995, 67001>>,
    <<67003, 67004>>, <<68736, 68786>>, <<68800, 68850>>, <<71840, 71903>>, <<93760, 93823>>, <<119808, 119892>>,
    <<119894, 119964>>, <<119966, 119967>>, <<119970, 119970>>, <<119973, 119974>>, <<119977, 119980>>, <<119982, 119993>>,
    <<119995, 119995>>, <<119997, 120003>>, <<120005, 120069>>, <<120071, 120074>>, <<120077, 120084>>, <<120086, 120092>>,
    <<120094, 120121>>, <<120123, 120126>>, <<120128, 120132>>, <<120134, 120134>>, <<120138, 120144>>, <<120146, 120485>>,
    <<120488, 120512>>, <<120514, 120538>>, <<120540, 120570>>, <<120572, 120596>>, <<120598, 120628>>, <<120630, 120654>>,
    <<120656, 120686>>, <<120688, 120712>>, <<120714, 120744>>, <<120746, 120770>>, <<120772, 120779>>, <<122624, 122633>>,
    <<122635, 122654>>, <<125184, 125251>>, <<127280, 127305>>, <<127312, 127337>>, <<127344, 127369>>
  >>

\* The code points of the digit zero of every script with decimal digits;
\* the nine that follow each are its digits 1 to 9.
DigitZeros ==
  {
    48, 1632, 1776, 1984, 2406, 2534, 2662, 2790, 2918, 3046,
    3174, 3302, 3430, 3558, 3664, 3792, 3872, 4160, 4240, 6112,
    6160, 6470, 6608, 6784, 6800, 6992, 7088, 7232, 7248, 42528,
    43216, 43264, 43472, 43504, 43600, 44016, 65296, 66720, 68912, 69734,
    69872, 69942, 70096, 70384, 70736, 70864, 71248, 71360, 71472, 71904,
    72016, 72784, 73040, 73120, 92768, 92864, 93008, 120782, 120792, 120802,
    120812, 120822, 123200, 123632, 125264, 130032
  }

InRuns(c, table) == \E k \in 1..Len(table) : table[k][1] <= c /\ c <= table[k][2]

IsCaseIgnorable(c) == InRuns(c, CaseIgnorable)

IsCased(c) == InRuns(c, Cased)

\* The lower case of one code point other than the capital sigma: one code
\* point, or two for U+0130.  At most one rule holds for a code point.
LowerChar(c) ==
  LET Moved(deltas) == IF deltas = {} THEN <<c>> ELSE <<c + CHOOSE delta \in deltas : TRUE>> IN
  IF c < 128 THEN IF c >= 65 /\ c <= 90 THEN <<c + 32>> ELSE <<c>>
  ELSE IF c = 304 THEN <<105, 775>>
  ELSE Moved({rule[4] : rule \in {r \in LowerRules :
                                     r[1] <= c /\ c <= r[2] /\ (c - r[1]) % r[3] = 0}})

\* The capital sigma at position i is a final sigma: a cased character comes
\* before it, case-ignorable ones passed over, and none comes after it in
\* the same way.  Of the nearest character before and the nearest after that
\* are not case-ignorable, the cased ones are the one before.
final_sigma(text, i) ==
  LET Between(kept) ==
        LET before == {j \in kept : j < i}
            near   == {j \in kept : \A k \in kept : (k < i) = (j < i) => (IF j < i THEN k <= j ELSE j <= k)}
        IN before # {} /\ {j \in near : IsCased(text[j])} = {j \in near : j < i}
  IN Between({j \in 1..Len(text) : j # i /\ ~IsCaseIgnorable(text[j])})

\* The lower case of positions i to j of the text; the range is halved at
\* each step.
RECURSIVE LowerRange(_, _, _)
LowerRange(text, i, j) ==
  IF i > j THEN <<>>
  ELSE IF i = j
  THEN IF text[i] = 931
       THEN IF final_sigma(text, i) THEN <<962>> ELSE <<963>>
       ELSE LowerChar(text[i])
  ELSE LET mid == (i + j) \div 2 IN
       LowerRange(text, i, mid) \o LowerRange(text, mid + 1, j)

\* str.lower() on the code points of a text.
lower_codepoints(text) == LowerRange(text, 1, Len(text))

\* str.lower() of a string, as code points.
lower(s) == lower_codepoints(codepoints(s))

\* A decimal digit of any script: what \d matches and what int() and float()
\* read as a digit.
IsDigit(c) ==
  IF c < 128 THEN c >= 48 /\ c <= 57
  ELSE \E zero \in DigitZeros : zero <= c /\ c <= zero + 9

DigitValue(c) ==
  IF c < 128 THEN c - 48
  ELSE c - CHOOSE zero \in DigitZeros : zero <= c /\ c <= zero + 9

\* The whitespace int() drops around a number.  The separators of code 28 to
\* 31 are whitespace to str.isspace() and not to int().
IsSpace(c) ==
  \/ c >= 9 /\ c <= 13
  \/ c \in {32, 133, 160, 5760, 8232, 8233, 8239, 8287, 12288}
  \/ c >= 8192 /\ c <= 8202

\* The text without the whitespace around it.
strip(text) ==
  LET kept == {i \in 1..Len(text) : ~IsSpace(text[i])} IN
  IF kept = {} THEN <<>>
  ELSE SubSeq(text, CHOOSE i \in kept : \A k \in kept : i <= k,
              CHOOSE j \in kept : \A k \in kept : k <= j)

\* The value of the digits of the text from position i on, single
\* underscores between digits passed over; -1 when another character is
\* met.
RECURSIVE IntDigits(_, _, _)
IntDigits(text, i, acc) ==
  IF i > Len(text) THEN acc
  ELSE IF IsDigit(text[i]) THEN IntDigits(text, i + 1, 10 * acc + DigitValue(text[i]))
  ELSE IF text[i] = 95 /\ IsDigit(CharAt(text, i - 1)) /\ IsDigit(CharAt(text, i + 1))
       THEN IntDigits(text, i + 1, acc)
  ELSE -1

\* int() on the code points of a text: the whitespace around the number is
\* dropped and one sign may lead the digits; any other text raises
\* ValueError.
int_codepoints(text) ==
  LET Result(negative, value) ==
        IF value < 0 THEN [raises |-> TRUE, value |-> 0]
        ELSE [raises |-> FALSE, value |-> IF negative THEN 0 - value ELSE value]
      Valued(negative, body) ==
        Result(negative, IF Len(body) = 0 THEN -1 ELSE IntDigits(body, 1, 0))
      Parsed(s) ==
        Valued(CharAt(s, 1) = 45, IF CharAt(s, 1) \in {43, 45} THEN SubSeq(s, 2, Len(s)) ELSE s)
  IN Parsed(strip(text))

\* int(text) of a string.
int(text) == int_codepoints(codepoints(text))

\* a < b on texts: the first code point that differs decides, and a text is
\* below every longer text that it begins.
text_lt(a, b) ==
  LET differ == {i \in 1..Len(a) : i <= Len(b) /\ a[i] # b[i]} IN
  IF differ = {} THEN Len(a) < Len(b)
  ELSE LET i == CHOOSE d \in differ : \A k \in differ : d <= k IN a[i] < b[i]

\* a < b on strings.
str_lt(a, b) == text_lt(codepoints(a), codepoints(b))

(***************************************************************************)
(* Categorizer: Polymarket.detect_category                                 *)
(***************************************************************************)

\* Python's `keyword in question`, on code points.
IsSubstring(keyword, question) ==
  \E i \in 1..(Len(question) - Len(keyword) + 1) :
    SubSeq(question, i, i + Len(keyword) - 1) = keyword

\* The keywords of a list as code points.
encoded(keywords) == [k \in 1..Len(keywords) |-> codepoints(keywords[k])]

\* any(keyword in question for keyword in keywords)
AnyKeywordIn(keywords, question) ==
  \E k \in 1..Len(keywords) : IsSubstring(keywords[k], question)

politics_keywords ==
  encoded(<<
    "election", "president", "presidential", "vote", "voting", "congress", "senate",
    "senator", "minister", "government", "governor", "mayor", "politician", "political",
    "candidate", "fed", "federal", "rate", "interest", "chancellor", "prime minister",
    "biden", "trump", "harris", "desantis", "republican", "democrat", "gop", "party",
    "campaign", "debate", "poll", "electoral", "impeach", "cabinet", "white house",
    "policy", "law", "legislation", "supreme court", "justice", "scotus", "midterm",
    "2024", "2025", "inauguration"
  >>)

sports_keywords ==
  encoded(<<
    "nba", "nfl", "mlb", "nhl", "soccer", "football", "basketball", "baseball", "hockey",
    "league", "cup", "championship", "playoffs", "win", "wins", "relegated",
    "super bowl", "world cup", "olympics", "fifa", "uefa", "champions league", "epl",
    "premier league", "la liga", "bundesliga", "serie a", "mvp", "rookie", "draft",
    "trade", "player", "team", "coach", "manager", "season", "finals", "semifinal",
    "quarterback", "goal", "touchdown", "home run", "points", "score", "games", "match",
    "tournament", "tennis", "golf", "pga", "masters", "wimbledon", "open", "formula 1",
    "f1", "racing"
  >>)

crypto_keywords ==
  encoded(<<
    "bitcoin", "btc", "ethereum", "eth", "crypto", "cryptocurrency", "token",
    "blockchain", "opensea", "nft", "defi", "solana", "sol", "cardano", "ada",
    "dogecoin", "doge", "binance", "coinbase", "exchange", "wallet", "mining", "hash",
    "altcoin", "satoshi", "web3", "dao", "smart contract", "yield", "staking",
    "liquidity", "usd", "usdc", "price", "$100", "$50", "$1000", "coin", "market cap",
    "volume", "trading"
  >>)

entertainment_keywords ==
  encoded(<<
    "movie", "film", "actor", "actress", "director", "award", "oscar", "academy",
    "golden globe", "emmy", "grammy", "song", "album", "artist", "singer", "show", "tv",
    "television", "streaming", "netflix", "disney", "marvel", "star wars", "hollywood",
    "box office", "celebrity", "fame", "concert", "tour", "music", "video", "youtube",
    "tiktok", "instagram", "social media", "influencer", "podcast", "series", "season",
    "episode"
  >>)

tech_keywords ==
  encoded(<<
    "ai", "artificial intelligence", "openai", "chatgpt", "gpt", "technology",
    "software", "app", "application", "launch", "google", "apple", "microsoft", "meta",
    "facebook", "amazon", "tesla", "elon musk", "twitter", "x.com", "iphone", "android",
    "ios", "startup", "ipo", "stock", "valuation", "revenue", "company", "ceo", "tech",
    "computer", "robot", "automation", "cloud", "data", "internet", "cyber", "security"
  >>)

economy_keywords ==
  encoded(<<
    "economy", "economic", "recession", "inflation", "gdp", "unemployment", "jobs",
    "market", "stock market", "dow", "nasdaq", "s&p", "sp500", "bear market",
    "bull market", "interest rate", "federal reserve", "bank", "banking", "finance",
    "financial", "dollar", "euro", "currency", "trade", "tariff", "debt", "deficit",
    "budget"
  >>)

climate_keywords ==
  encoded(<<
    "climate", "global warming", "temperature", "weather", "hurricane", "storm", "flood",
    "drought", "wildfire", "carbon", "emissions", "renewable", "solar", "wind",
    "electric", "ev", "environment", "green", "sustainability"
  >>)

health_keywords ==
  encoded(<<
    "health", "medical", "disease", "virus", "vaccine", "covid", "pandemic", "hospital",
    "doctor", "medicine", "drug", "fda", "approval", "treatment", "cure", "clinical",
    "trial", "study", "research"
  >>)

\* A faulty variant of detect_category, against which the properties are tried: crypto is tested before politics.
detect_category_crypto_first(question) ==
  LET q == lower(question) IN
  IF AnyKeywordIn(crypto_keywords, q) THEN "crypto"
  ELSE IF AnyKeywordIn(politics_keywords, q) THEN "politics"
  ELSE IF AnyKeywordIn(sports_keywords, q) THEN "sports"
  ELSE IF AnyKeywordIn(tech_keywords, q) THEN "tech"
  ELSE IF AnyKeywordIn(entertainment_keywords, q) THEN "entertainment"
  ELSE IF AnyKeywordIn(economy_keywords, q) THEN "economy"
  ELSE IF AnyKeywordIn(climate_keywords, q) THEN "climate"
  ELSE IF AnyKeywordIn(health_keywords, q) THEN "health"
  ELSE "other"

detect_category(question) ==
  LET q == lower(question) IN
  IF AnyKeywordIn(politics_keywords, q) THEN "politics"
  ELSE IF AnyKeywordIn(sports_keywords, q) THEN "sports"
  ELSE IF AnyKeywordIn(crypto_keywords, q) THEN "crypto"
  ELSE IF AnyKeywordIn(tech_keywords, q) THEN "tech"
  ELSE IF AnyKeywordIn(entertainment_keywords, q) THEN "entertainment"
  ELSE IF AnyKeywordIn(economy_keywords, q) THEN "economy"
  ELSE IF AnyKeywordIn(climate_keywords, q) THEN "climate"
  ELSE IF AnyKeywordIn(health_keywords, q) THEN "health"
  ELSE "other"


\* ---- SpecCategory: detect_category on bounded titles ----

\* Titles are concatenations of at most MaxWords fragments; the fragments carry
\* keywords of every category in mixed case, and one that matches nothing.
MaxWords == 2

Fragments ==
  {"Fed", "Vote ", "NBA", "Bitcoin", "AI", "TV", "GDP", "EV", "FDA", "xyz", "Q? "}

RECURSIVE TitlesOf(_)
TitlesOf(n) ==
  IF n = 0 THEN {""}
  ELSE LET shorter == TitlesOf(n - 1) IN
       shorter \cup {t \o f : t \in shorter, f \in Fragments}

Titles == TitlesOf(MaxWords)

CategoryInit ==
  /\ dc_question \in Titles
  /\ dc_result = "unset"

CategoryIdle ==
  /\ dc_question = ""
  /\ dc_result = "unset"

DetectCategory ==
  /\ dc_result = "unset"
  /\ dc_result' = detect_category(dc_question)
  /\ UNCHANGED dc_question
  /\ UNCHANGED notCategoryVars


(***************************************************************************)
(* Scorer/Filter: Polymarket.filter_markets_for_trading                    *)
(*                                                                         *)
(* A market is a record                                                    *)
(*   id, question, active, funded, rewardsMinSize                          *)
(*   spread   market.spread in hundredths: k stands for the double k/100   *)
(*   end      [format, hours]: how market.end reads, and, when it parses   *)
(*            as a timezone-aware ISO date, end_date - current_time in     *)
(*            whole hours (negative once past).  "naive" parses but cannot *)
(*            be subtracted from the aware current_time (TypeError);       *)
(*            "invalid" does not parse (ValueError).                       *)
(***************************************************************************)

max_per_category == 8
max_featured == 50

Categories ==
  {"politics", "sports", "crypto", "tech", "entertainment", "economy", "climate",
   "health", "other"}

Max(a, b) == IF a >= b THEN a ELSE b

\* The score is a Python float once the spread factor is added to it.  A float
\* is [units, eps], the number units + eps * 2^-52; eps is 0 for a whole
\* number.
Float(units, eps) == [units |-> units, eps |-> eps]

\* The rounding of 30 - (market.spread * 100) in doubles, for the spreads 0.01
\* to 0.29: the result minus the whole number 30 - k, in units of 2^-52
\* (0.14 gives 15.999999999999998, 0.28 gives 1.9999999999999964, 0.29 gives
\* 1.0000000000000036).
SpreadRounding ==
  <<0, 0, 0, 0, 0, 0, 0, 0, 0, 0, 0, 0, 0, -8, 0, 0, 0, 0, 0, 0, 0, 0, 0, 0, 0,
    0, 0, -16, 16>>

\* Factor 1: max(0, 30 - spread * 100) when spread > 0.  From 0.30 on the
\* difference is not positive and max answers 0.
spread_score(market) ==
  IF market.spread > 0
  THEN IF market.spread < 30
       THEN Float(30 - market.spread, SpreadRounding[market.spread])
       ELSE Float(0, 0)
  ELSE Float(0, 0)

\* The greatest power of two that is at most n (n >= 1).
RECURSIVE Binade(_)
Binade(n) == IF n < 2 THEN 1 ELSE 2 * Binade(n \div 2)

\* score += n for a whole number n: the sum is rounded to the nearest double,
\* ties to the even mantissa.  Doubles in [2^e, 2^(e+1)) are 2^(e-52) apart,
\* which is 2^e in the unit of eps.
float_add(score, n) ==
  LET units == score.units + n
      top   == Binade(units)
      ulp   == IF score.eps < 0 /\ top = units THEN Max(1, top \div 2) ELSE top
      lo    == score.eps \div ulp
      rest  == score.eps - lo * ulp
      q     == IF 2 * rest < ulp THEN lo
               ELSE IF 2 * rest > ulp THEN lo + 1
               ELSE IF lo % 2 = 0 THEN lo ELSE lo + 1
  IN IF score.eps = 0 THEN Float(units, 0) ELSE Float(units, q * ulp)

\* x > y and x == y on floats.
float_gt(x, y) == x.units > y.units \/ (x.units = y.units /\ x.eps > y.eps)

\* Factor 2: timedelta.days is the floor of the difference in days; both
\* exceptions of the try block land in the bare except.
time_score(market) ==
  IF market.end.format # "aware" THEN 10
  ELSE LET days_remaining == market.end.hours \div 24 IN
       IF days_remaining > 0
       THEN IF 1 <= days_remaining /\ days_remaining <= 30 THEN 25
            ELSE IF 31 <= days_remaining /\ days_remaining <= 90 THEN 20
            ELSE IF 91 <= days_remaining /\ days_remaining <= 180 THEN 15
            ELSE 5
       ELSE 0

\* Factor 3
funded_score(market) == IF market.funded THEN 20 ELSE 0

\* Factor 4
question_score(market) ==
  LET question_length == Len(market.question) IN
  IF question_length > 100 THEN 15
  ELSE IF question_length > 50 THEN 10
  ELSE 5

\* Factor 5: a rewardsMinSize of 0 is falsy and adds nothing.
min_size_score(market) ==
  IF market.rewardsMinSize # 0
  THEN IF market.rewardsMinSize >= 100 THEN 10
       ELSE IF market.rewardsMinSize >= 50 THEN 7
       ELSE 3
  ELSE 0

\* The factors are added to the score one after the other, in this order.
market_score(market) ==
  float_add(float_add(float_add(float_add(spread_score(market),
                                          time_score(market)),
                                funded_score(market)),
                      question_score(market)),
            min_size_score(market))

\* A faulty variant of Skipped, against which the properties are tried: inactive markets are scored like the others.
SkippedNever(market) == FALSE

\* `if not market.active: continue`
Skipped(market) == ~market.active

\* The scoring loop: (market, score) for every market it does not skip, in
\* input order.
ScoreMarkets(ms) ==
  LET kept == SelectSeq(ms, LAMBDA m : ~Skipped(m)) IN
  [i \in 1..Len(kept) |-> [market |-> kept[i], score |-> market_score(kept[i])]]

\* list.sort(key=score, reverse=True).  The sort is stable, also in reverse:
\* an element comes after every element of greater score and after the
\* earlier elements of equal score, which fixes its place.
PlaceAfterSort(scored, i) ==
  1 + Cardinality({j \in 1..Len(scored) :
                     \/ float_gt(scored[j].score, scored[i].score)
                     \/ scored[j].score = scored[i].score /\ j < i})

\* A faulty variant of SortByScore, against which the properties are tried:
\* equal scores come out in reverse input order.
SortByScoreUnstable(scored) ==
  [p \in 1..Len(scored) |->
     scored[CHOOSE i \in 1..Len(scored) :
              p = 1 + Cardinality({j \in 1..Len(scored) :
                                     \/ float_gt(scored[j].score, scored[i].score)
                                     \/ scored[j].score = scored[i].score /\ j > i})]]

SortByScore(scored) ==
  [p \in 1..Len(scored) |->
     scored[CHOOSE i \in 1..Len(scored) : PlaceAfterSort(scored, i) = p]]

\* A faulty variant of UnderCategoryCap, against which the properties are tried: the comparison is off by one.
UnderCategoryCapOffByOne(category_counts, category) ==
  category_counts[category] <= max_per_category

\* category_counts.get(category, 0) < max_per_category
UnderCategoryCap(category_counts, category) ==
  category_counts[category] < max_per_category

\* len(featured_markets) >= 50
EnoughMarkets(featured_markets) == Len(featured_markets) >= max_featured

\* The selection loop over the sorted list.
RECURSIVE SelectDiverse(_, _, _, _)
SelectDiverse(scored, i, featured_markets, category_counts) ==
  IF i > Len(scored) THEN featured_markets
  ELSE LET market == scored[i].market
           category == detect_category(market.question)
       IN IF UnderCategoryCap(category_counts, category)
          THEN LET appended == Append(featured_markets, market) IN
               IF EnoughMarkets(appended) THEN appended
               ELSE SelectDiverse(scored, i + 1, appended,
                                  [category_counts EXCEPT ![category] = @ + 1])
          ELSE SelectDiverse(scored, i + 1, featured_markets, category_counts)

filter_markets_for_trading(ms) ==
  SelectDiverse(SortByScore(ScoreMarkets(ms)), 1, <<>>,
                [c \in Categories |-> 0])


\* ---- SpecFilter: filter_markets_for_trading on bounded lists ----

MaxLen == 2          \* exhaustive lists over MarketPool up to this length
MaxCatalog == 80     \* size of the largest synthetic catalog

RECURSIVE Repeat(_, _)
Repeat(s, n) ==
  IF n = 0 THEN ""
  ELSE IF n = 1 THEN s
  ELSE Repeat(s, n \div 2) \o Repeat(s, n - (n \div 2))

Mk(id, question, active, spread, format, hours, funded, minsize) ==
  [id |-> id, question |-> question, active |-> active, spread |-> spread,
   end |-> [format |-> format, hours |-> hours], funded |-> funded,
   rewardsMinSize |-> minsize]

\* One market per case of the scoring factors; 7 and 9 tie on the total score.
\* 10 scores 16.999999999999996, just under the 17 of 11; the rounding of
\* the spread factor of 12 is lost again when 25 is added.
MarketPool ==
  { Mk(1, "Will the Fed cut rates? " \o Repeat("z", 100), TRUE, 1, "aware", 240, TRUE, 100),
    Mk(2, "Bitcoin above $100 this year? " \o Repeat("z", 100), FALSE, 1, "aware", 240, TRUE, 100),
    Mk(3, "NBA finals", TRUE, 50, "aware", 9600, FALSE, 0),
    Mk(4, "GPT app " \o Repeat("z", 50), TRUE, 0, "invalid", 0, FALSE, 50),
    Mk(5, "xyz", TRUE, 3, "naive", 240, TRUE, 0),
    Mk(6, "GDP up?", TRUE, 25, "aware", -5, FALSE, 10),
    Mk(7, "EV subsidy?", TRUE, 0, "aware", 12, TRUE, 0),
    Mk(8, "FDA drug", TRUE, 20, "aware", 1440, FALSE, 0),
    Mk(9, "Fed up?", TRUE, 0, "aware", 2880, FALSE, 50),
    Mk(10, "Fed hike?", TRUE, 28, "invalid", 0, FALSE, 0),
    Mk(11, "NBA mvp", TRUE, 25, "aware", -5, FALSE, 50),
    Mk(12, "Tesla EV?", TRUE, 14, "aware", 240, FALSE, 0) }

RECURSIVE ListsOver(_, _)
ListsOver(S, n) ==
  IF n = 0 THEN {<<>>}
  ELSE LET shorter == ListsOver(S, n - 1) IN
       shorter \cup {Append(l, x) : l \in shorter, x \in S}

\* Synthetic catalogs: n markets cycling through k categories, with varied
\* scores and every seventh market inactive.
ShortQuestions == <<"fed", "nba", "btc", "gpt", "tv", "gdp", "ev", "fda", "xyz">>

CatalogMarket(i, k) ==
  Mk(i, ShortQuestions[((i - 1) % k) + 1], i % 7 # 0, i % 4, "aware",
     960 * (i % 3), i % 2 = 0, 0)

Catalog(n, k) == [i \in 1..n |-> CatalogMarket(i, k)]

FilterInputs ==
  ListsOver(MarketPool, MaxLen)
    \cup {Catalog(n, k) : n \in {MaxCatalog - 20, MaxCatalog}, k \in 1..Len(ShortQuestions)}

FilterInit ==
  /\ fm_markets \in FilterInputs
  /\ fm_featured = <<>>
  /\ fm_pc = "input"

FilterIdle ==
  /\ fm_markets = <<>>
  /\ fm_featured = <<>>
  /\ fm_pc = "idle"

FilterMarkets ==
  /\ fm_pc = "input"
  /\ fm_featured' = filter_markets_for_trading(fm_markets)
  /\ fm_pc' = "done"
  /\ UNCHANGED fm_markets
  /\ UNCHANGED notFilterVars


(***************************************************************************)
(* Ingestion: Polymarket.get_all_events and the upstream it reads          *)
(*                                                                         *)
(* An upstream answer is [kind, status_code, body]: kind "exception" is a  *)
(* timeout or transport error raised by httpx.get, kind "status" an HTTP   *)
(* answer whose body is the list of raw markets [id, volume]; a record may *)
(* come without the key id, and an id holding a comma is read by the gate  *)
(* of the trading cycle as a list of market ids.                           *)
(***************************************************************************)

min_event_volume == 10000

\* dict.get(key, default)
get(d, key, default) == IF key \in DOMAIN d THEN d[key] ELSE default

\* "id": str(market.get("id")) and "markets": str(market.get("id", "")): for
\* a record without an id the first is str(None), the text "None", and the
\* second is empty.  An id that is there is a text already.
RawEvent(market) ==
  [id |-> get(market, "id", None), markets |-> get(market, "id", "")]

RECURSIVE EventsOf(_, _)
EventsOf(body, i) ==
  IF i > Len(body) THEN <<>>
  ELSE IF body[i].volume > min_event_volume
       THEN <<RawEvent(body[i])>> \o EventsOf(body, i + 1)
       ELSE EventsOf(body, i + 1)

\* Every exception is caught and answered with []; so is a status other than
\* 200 and an empty page.
get_all_events(resp) ==
  IF resp.kind = "exception" THEN <<>>
  ELSE IF resp.status_code = 200
       THEN IF Len(resp.body) > 0 THEN EventsOf(resp.body, 1) ELSE <<>>
       ELSE <<>>

(***************************************************************************)
(* The trading cycle: TradingService.run_autonomous_trading                *)
(***************************************************************************)

high_quality_volume == 10000

\* str.split(','): the pieces between commas, [''] for the empty string.
RECURSIVE SplitFrom(_, _)
SplitFrom(s, piece) ==
  IF Len(s) = 0 THEN <<piece>>
  ELSE IF SubSeq(s, 1, 1) = ","
       THEN <<piece>> \o SplitFrom(SubSeq(s, 2, Len(s)), "")
       ELSE SplitFrom(SubSeq(s, 2, Len(s)), piece \o SubSeq(s, 1, 1))

split(s) == SplitFrom(s, "")

\* What the venue holds for each market id: the answer of gamma.get_market
\* (raises for an id it cannot serve) and the market's clob_token_ids.
gamma_get_market(market_id) ==
  CASE market_id = "m1" -> [raises |-> FALSE, id |-> "m1", volume |-> 20000, featured |-> FALSE]
    [] market_id = "m2" -> [raises |-> FALSE, id |-> "m2", volume |-> 500, featured |-> TRUE]
    [] market_id = "m3" -> [raises |-> FALSE, id |-> "m3", volume |-> 10000, featured |-> FALSE]
    [] market_id = "m5" -> [raises |-> FALSE, id |-> "m5", volume |-> 50000, featured |-> TRUE]
    [] OTHER -> [raises |-> TRUE, id |-> market_id, volume |-> 0, featured |-> FALSE]

clob_token_ids_of(market_id) ==
  CASE market_id = "m1" -> "['101', '102']"
    [] market_id = "m5" -> "['501', '502']"
    [] OTHER -> ""

\* A faulty variant of IsHighQuality, against which the properties are tried:
\* a volume of exactly the threshold passes.
IsHighQualityFromThreshold(market_data) ==
  market_data.volume >= high_quality_volume \/ market_data.featured

\* `volume > 10000 or is_pinned`
IsHighQuality(market_data) ==
  market_data.volume > high_quality_volume \/ market_data.featured

\* The inner loop over one event's market ids, inside the per-event try: an
\* empty id is passed over, the first high-quality market ends the loop, and
\* an exception of gamma.get_market leaves the event without an entry.
RECURSIVE EventEntry(_, _, _)
EventEntry(event, market_ids, i) ==
  IF i > Len(market_ids) THEN <<>>
  ELSE IF market_ids[i] = "" THEN EventEntry(event, market_ids, i + 1)
  ELSE LET market_data == gamma_get_market(market_ids[i]) IN
       IF market_data.raises THEN <<>>
       ELSE IF IsHighQuality(market_data)
            THEN <<[event |-> event, market_data |-> market_data]>>
            ELSE EventEntry(event, market_ids, i + 1)

\* The loop over events that fills high_quality_events.
RECURSIVE GateEvents(_, _)
GateEvents(evs, i) ==
  IF i > Len(evs) THEN <<>>
  ELSE EventEntry(evs[i], split(evs[i].markets), 1) \o GateEvents(evs, i + 1)

\* map_filtered_events_to_markets: one (SimpleMarket, score) tuple per event.
MarketTuple(entry) ==
  [id |-> entry.market_data.id,
   clob_token_ids |-> clob_token_ids_of(entry.market_data.id)]

\* The order-preserving sublists of a list: what a filter stage may keep.
RECURSIVE Sublists(_)
Sublists(s) ==
  IF Len(s) = 0 THEN {<<>>}
  ELSE LET rest == Sublists(Tail(s)) IN
       rest \cup {<<Head(s)>> \o r : r \in rest}

Abs(x) == IF x < 0 THEN -x ELSE x

\* `if best_trade and isinstance(best_trade, dict)`: the value the agent
\* returned is held as an option, empty for None and for an empty dict.
IsTrade(trade) == Len(trade) > 0

\* A value of the dict the agent returns, with its Python type: a number
\* (an int, a float or a bool), a str, or None.
Number(n) == [type |-> "number", value |-> n]

Str(s) == [type |-> "str", text |-> s]

NoneValue == [type |-> "NoneType"]

\* float(text) reads the text: the whitespace around it is dropped, one sign
\* may lead, and what follows is inf, infinity or nan in any case, or digits
\* with at most one dot and an exponent, single underscores between digits.
IsFloatText(text) ==
  LET Word(s, b) ==
        \E w \in {codepoints("inf"), codepoints("infinity"), codepoints("nan")} :
          /\ Len(s) - b + 1 = Len(w)
          /\ \A k \in 1..Len(w) : s[b + k - 1] \in {w[k], w[k] - 32}
      DigitPart(s, i, j) ==
        /\ i <= j
        /\ IsDigit(s[i]) /\ IsDigit(s[j])
        /\ \A k \in i..j :
             IsDigit(s[k]) \/ (s[k] = 95 /\ IsDigit(s[k - 1]) /\ IsDigit(s[k + 1]))
      Mantissa(s, b, m) ==
        \/ DigitPart(s, b, m)
        \/ \E dot \in b..m :
             /\ s[dot] = 46 /\ m > b
             /\ dot > b => DigitPart(s, b, dot - 1)
             /\ dot < m => DigitPart(s, dot + 1, m)
      Exponent(s, i) ==
        /\ i < Len(s)
        /\ s[i] \in {69, 101}
        /\ DigitPart(s, IF s[i + 1] \in {43, 45} THEN i + 2 ELSE i + 1, Len(s))
      Unsigned(s, b) ==
        /\ b <= Len(s)
        /\ \/ Word(s, b)
           \/ \E m \in b..Len(s) : Mantissa(s, b, m) /\ (m = Len(s) \/ Exponent(s, m + 1))
      Stripped(s) == Len(s) > 0 /\ Unsigned(s, IF s[1] \in {43, 45} THEN 2 ELSE 1)
  IN Stripped(strip(text))

\* float(x) of line 122 raises: TypeError on None, ValueError on a str that
\* is no float.
float_raises(x) ==
  IF x.type = "number" THEN FALSE
  ELSE IF x.type = "str" THEN ~IsFloatText(codepoints(x.text))
  ELSE TRUE

\* f"{edge:.4f}" of line 126 raises on anything but a number: ValueError on
\* a str, TypeError on None.
format_raises(x) == x.type # "number"

\* Lines 122-126 raise for the dict: float() of its price, 0 when it has
\* none, or the format of its edge, 0 when it has none.
decision_raises(trade) ==
  \/ float_raises(get(trade, "price", Number(0)))
  \/ format_raises(get(trade, "edge", Number(0)))

\* best_trade.get('edge', 0) where it is a number, as line 126 requires.
edge_of(trade) ==
  LET edge == get(trade, "edge", Number(0)) IN
  IF edge.type = "number" THEN edge.value ELSE 0

\* Lines 110 and 123: market_data of the candidate and
\* best_trade.get('edge', 0), as the returned dicts carry them.  No line of
\* the loop compares the edge with anything.
trade_decision(market_data, trade) ==
  [market |-> market_data.id, edge |-> edge_of(trade)]

\* A faulty variant of HasNoTokens, against which the properties are tried:
\* the test is left out.
HasNoTokensNever(market) == FALSE

\* `not hasattr(market_data, 'clob_token_ids') or not market_data.clob_token_ids`
HasNoTokens(market) == market.clob_token_ids = ""

\* The for loop up to its next await: the first position at or after `from`
\* whose market has token ids, 0 when the loop runs out.
RECURSIVE NextCandidate(_, _)
NextCandidate(ms, from) ==
  IF from > Len(ms) THEN 0
  ELSE IF HasNoTokens(ms[from]) THEN NextCandidate(ms, from + 1)
  ELSE from


\* What an invocation gives its caller.  outcome "raised" is an exception
\* propagated by the outer handler, the others are the returned dicts.
Result(outcome, success, message, market, edge, trade_result) ==
  [outcome |-> outcome, success |-> success, message |-> message,
   market |-> market, edge |-> edge, trade_result |-> trade_result]

NoResult == Result("none", FALSE, "", None, 0, None)

NoHighQuality ==
  Result("returned", FALSE, "No high quality events found", None, 0, None)

NoEligible ==
  Result("returned", FALSE, "No eligible trades found", None, 0, None)

DryRunDecision(trade) ==
  Result("returned", TRUE, "Trade decision generated (DRY RUN mode)",
         trade.market, trade.edge, None)

\* A faulty variant of LiveResult, against which the properties are tried: a
\* failed submission is raised instead of reported.
LiveResultRaisingOnFailure(trade, trade_result) ==
  IF trade_result = None
  THEN Result("raised", FALSE, "execute_market_order", None, 0, None)
  ELSE Result("returned", TRUE, "", trade.market, trade.edge, trade_result)

\* "success": trade_result is not None
LiveResult(trade, trade_result) ==
  Result("returned", trade_result # None, "", trade.market, trade.edge, trade_result)

Raised(cause) == Result("raised", FALSE, cause, None, 0, None)

NoResponse == [kind |-> "none", status_code |-> 0, body |-> <<>>]

\* ---- Spec: the inputs of a cycle ----

MaxEvents == 3       \* raw markets in one upstream page

RawMarkets ==
  { [id |-> "m1", volume |-> 20000], [id |-> "m2", volume |-> 20000],
    [id |-> "m3", volume |-> 20000], [id |-> "m4", volume |-> 20000],
    [id |-> "m5", volume |-> 20000], [id |-> "m1", volume |-> 10000],
    [volume |-> 20000],
    [id |-> "m3,m1,m5", volume |-> 20000] }

Responses ==
  { [kind |-> "exception", status_code |-> 0, body |-> <<>>],
    [kind |-> "status", status_code |-> 500, body |-> <<>>] }
  \cup { [kind |-> "status", status_code |-> 200, body |-> b] :
           b \in ListsOver(RawMarkets, MaxEvents) }

\* What one call of agent.source_best_trade does: it raises, it returns
\* None, or it returns a dict.  The "price" and the "edge" of the dict (in
\* hundredths when they are numbers) are values of any type, and the "edge"
\* may be missing.
ForecastOutcomes ==
  { [raised |-> TRUE, best_trade |-> <<>>], [raised |-> FALSE, best_trade |-> <<>>] }
  \cup { [raised |-> FALSE, best_trade |-> <<d>>] :
           d \in { [position |-> "YES", price |-> Number(40), edge |-> Number(6)],
                   [position |-> "NO", price |-> Number(60)],
                   [position |-> "YES", price |-> Str("abc"), edge |-> Number(6)],
                   [position |-> "YES", price |-> Str(" 4e-1"), edge |-> NoneValue] } }

CycleInit ==
  /\ trader_dry_run \in BOOLEAN
  /\ pc = "idle"
  /\ dry_run = FALSE
  /\ original_dry_run = FALSE
  /\ response = NoResponse
  /\ events = <<>>
  /\ high_quality_events = <<>>
  /\ filtered_events = <<>>
  /\ markets = <<>>
  /\ filtered_markets = <<>>
  /\ idx = 0
  /\ forecast_log = <<>>
  /\ best_trade = <<>>
  /\ order_calls = 0
  /\ order_outcome = None
  /\ result = NoResult

CycleIdle ==
  /\ trader_dry_run = FALSE
  /\ pc = "off"
  /\ dry_run = FALSE
  /\ original_dry_run = FALSE
  /\ response = NoResponse
  /\ events = <<>>
  /\ high_quality_events = <<>>
  /\ filtered_events = <<>>
  /\ markets = <<>>
  /\ filtered_markets = <<>>
  /\ idx = 0
  /\ forecast_log = <<>>
  /\ best_trade = <<>>
  /\ order_calls = 0
  /\ order_outcome = None
  /\ result = NoResult

\* ---- Spec: the steps of a cycle, one per await ----

\* A faulty variant of Finish, against which the properties are tried: the flag is restored at the end of the try block
\* instead of in a finally clause, so an exception leaves it overridden.
FinishRestoringOnReturnOnly(res, original) ==
  /\ pc' = "done"
  /\ result' = res
  /\ trader_dry_run' = IF res.outcome = "raised" THEN dry_run' ELSE original

\* A return or a propagated exception, through `finally`, which restores the flag.
Finish(res, original) ==
  /\ pc' = "done"
  /\ result' = res
  /\ trader_dry_run' = original

\* A faulty variant of IsDryRun, against which the properties are tried: the order branch is taken whatever the argument.
IsDryRunIgnored(d) == FALSE

\* `if dry_run:` on the argument of the invocation
IsDryRun(d) == d

\* A faulty variant of OnCandidateError, against which the properties are tried: no handler inside the loop.
OnCandidateErrorPropagate == "raise"

\* `except Exception as e: ... continue` inside the loop over filtered_markets
OnCandidateError == "continue"

\* The for loop from position `from` to its next await or to the final return.
ContinueLoop(from) ==
  LET n == NextCandidate(filtered_markets, from) IN
  IF n = 0
  THEN /\ Finish(NoEligible, original_dry_run)
       /\ UNCHANGED idx
  ELSE /\ idx' = n
       /\ pc' = "source_best_trade"
       /\ UNCHANGED <<trader_dry_run, result>>

\* Lines 24-37: the flag is saved and overridden, pre_trade_logic runs, and
\* the event fetch is dispatched.
Start(d, pre_ok) ==
  /\ pc \in {"idle", "done"}
  /\ UNCHANGED notCycleVars
  /\ dry_run' = d
  /\ original_dry_run' = trader_dry_run
  /\ response' = NoResponse
  /\ events' = <<>>
  /\ high_quality_events' = <<>>
  /\ filtered_events' = <<>>
  /\ markets' = <<>>
  /\ filtered_markets' = <<>>
  /\ idx' = 0
  /\ forecast_log' = <<>>
  /\ best_trade' = <<>>
  /\ order_calls' = 0
  /\ order_outcome' = None
  /\ IF pre_ok
     THEN /\ trader_dry_run' = d
          /\ pc' = "get_all_events"
          /\ result' = NoResult
     ELSE Finish(Raised("pre_trade_logic"), trader_dry_run)

\* Lines 34-84: the fetch returns, the events are gated, and either the cycle
\* returns for want of high-quality events or the RAG filter is dispatched.
EventsReturned(resp) ==
  /\ pc = "get_all_events"
  /\ UNCHANGED notCycleVars
  /\ UNCHANGED <<dry_run, original_dry_run, filtered_events, markets,
                 filtered_markets, idx, forecast_log, best_trade, order_calls, order_outcome>>
  /\ response' = resp
  /\ events' = get_all_events(resp)
  /\ high_quality_events' = GateEvents(events', 1)
  /\ IF Len(high_quality_events') = 0
     THEN Finish(NoHighQuality, original_dry_run)
     ELSE /\ pc' = "filter_events_with_rag"
          /\ UNCHANGED <<trader_dry_run, result>>

\* Lines 80-93: filter_events_with_rag returns a sublist, or raises.
RagReturned(raises, kept) ==
  /\ pc = "filter_events_with_rag"
  /\ UNCHANGED notCycleVars
  /\ UNCHANGED <<dry_run, original_dry_run, response, events, high_quality_events,
                 markets, filtered_markets, idx, forecast_log, best_trade,
                 order_calls, order_outcome>>
  /\ IF raises
     THEN /\ Finish(Raised("filter_events_with_rag"), original_dry_run)
          /\ UNCHANGED filtered_events
     ELSE /\ filtered_events' = kept
          /\ pc' = "map_filtered_events_to_markets"
          /\ UNCHANGED <<trader_dry_run, result>>

\* Lines 89-102: map_filtered_events_to_markets returns, or raises.
MapReturned(raises) ==
  /\ pc = "map_filtered_events_to_markets"
  /\ UNCHANGED notCycleVars
  /\ UNCHANGED <<dry_run, original_dry_run, response, events, high_quality_events,
                 filtered_events, filtered_markets, idx, forecast_log, best_trade,
                 order_calls, order_outcome>>
  /\ IF raises
     THEN /\ Finish(Raised("map_filtered_events_to_markets"), original_dry_run)
          /\ UNCHANGED markets
     ELSE /\ markets' = [i \in 1..Len(filtered_events) |-> MarketTuple(filtered_events[i])]
          /\ pc' = "filter_markets"
          /\ UNCHANGED <<trader_dry_run, result>>

\* Lines 98-119: filter_markets returns a sublist, or raises; the loop starts.
FilterMarketsReturned(raises, kept) ==
  /\ pc = "filter_markets"
  /\ UNCHANGED notCycleVars
  /\ UNCHANGED <<dry_run, original_dry_run, response, events, high_quality_events,
                 filtered_events, markets, forecast_log, best_trade, order_calls, order_outcome>>
  /\ IF raises
     THEN /\ Finish(Raised("filter_markets"), original_dry_run)
          /\ UNCHANGED <<filtered_markets, idx>>
     ELSE /\ filtered_markets' = kept
          /\ LET n == NextCandidate(kept, 1) IN
             IF n = 0
             THEN /\ Finish(NoEligible, original_dry_run)
                  /\ UNCHANGED idx
             ELSE /\ idx' = n
                  /\ pc' = "source_best_trade"
                  /\ UNCHANGED <<trader_dry_run, result>>

\* The iteration for the candidate ends in the handler of lines 169-171:
\* source_best_trade raised, or lines 122-126 did on the dict it returned.
IterationRaises(outcome) ==
  \/ outcome.raised
  \/ IsTrade(outcome.best_trade) /\ decision_raises(outcome.best_trade[1])

\* Lines 115-152 and 169-178: source_best_trade returns or raises for the
\* candidate at idx; the cycle returns the dry-run decision, dispatches the
\* order, or goes on with the loop.  The entry of forecast_log records the
\* iteration: raised when it ended in the handler, trade when the test of
\* line 121 held.
ForecastReturned(outcome) ==
  /\ pc = "source_best_trade"
  /\ UNCHANGED notCycleVars
  /\ forecast_log' = Append(forecast_log,
       [idx |-> idx, raised |-> IterationRaises(outcome),
        trade |-> IsTrade(outcome.best_trade),
        edge |-> IF IsTrade(outcome.best_trade)
                 THEN edge_of(outcome.best_trade[1]) ELSE 0])
  /\ UNCHANGED <<dry_run, original_dry_run, response, events, high_quality_events,
                 filtered_events, markets, filtered_markets, order_outcome>>
  /\ IF IterationRaises(outcome)
     THEN /\ best_trade' = IF outcome.raised THEN best_trade ELSE outcome.best_trade
          /\ UNCHANGED order_calls
          /\ IF OnCandidateError = "continue"
             THEN ContinueLoop(idx + 1)
             ELSE /\ Finish(Raised("source_best_trade"), original_dry_run)
                  /\ UNCHANGED idx
     ELSE /\ best_trade' = outcome.best_trade
          /\ IF IsTrade(best_trade')
             THEN IF IsDryRun(dry_run)
                  THEN /\ Finish(DryRunDecision(trade_decision(filtered_markets[idx],
                                                               best_trade'[1])),
                                 original_dry_run)
                       /\ UNCHANGED <<idx, order_calls>>
                  ELSE /\ pc' = "execute_market_order"
                       /\ order_calls' = order_calls + 1
                       /\ UNCHANGED <<idx, trader_dry_run, result>>
             ELSE /\ ContinueLoop(idx + 1)
                  /\ UNCHANGED order_calls

\* A faulty variant of OrderReturned, against which the properties are tried: a
\* failed submission is passed over and the loop goes on to the next candidate.
OrderReturnedRetrying(trade_result) ==
  /\ pc = "execute_market_order"
  /\ UNCHANGED notCycleVars
  /\ UNCHANGED <<dry_run, original_dry_run, response, events, high_quality_events,
                 filtered_events, markets, filtered_markets, forecast_log,
                 best_trade, order_calls>>
  /\ order_outcome' = trade_result
  /\ IF trade_result = None
     THEN ContinueLoop(idx + 1)
     ELSE /\ Finish(LiveResult(trade_decision(filtered_markets[idx], best_trade[1]),
                                trade_result),
                     original_dry_run)
          /\ UNCHANGED idx

\* Lines 147-167: execute_market_order returns the venue's answer, or None
\* for every failure it caught.
OrderReturned(trade_result) ==
  /\ pc = "execute_market_order"
  /\ UNCHANGED notCycleVars
  /\ UNCHANGED <<dry_run, original_dry_run, response, events, high_quality_events,
                 filtered_events, markets, filtered_markets, idx, forecast_log,
                 best_trade, order_calls>>
  /\ order_outcome' = trade_result
  /\ Finish(LiveResult(trade_decision(filtered_markets[idx], best_trade[1]), trade_result),
            original_dry_run)

(***************************************************************************)
(* MarketCatalog: PolymarketService over the Polymarket client             *)
(*                                                                         *)
(* Times are whole seconds.  A catalog request is two steps, the call up   *)
(* to its await and the return of the upstream fetch.                      *)
(*                                                                         *)
(* A raw market of the venue is a record with some of the keys id (a text),*)
(* question, end, active, spread (hundredths).  An end date is             *)
(*   [text, format, hours, past]: the text, how datetime.fromisoformat     *)
(*   reads it ("aware" with an offset, "naive" without one, "invalid" when *)
(*   it does not parse, "none" for the empty text), the whole hours from   *)
(*   the current time to the date it gives, and whether that date is at or *)
(*   before the current time.                                              *)
(* The service has five cached reads: get_all_markets, get_market_by_id,   *)
(* get_all_events, get_tradeable_markets and get_events_with_markets.      *)
(***************************************************************************)

cache_timeout == 60

\* timedelta.seconds: the seconds field of the normalised difference, that is
\* the difference modulo one day, not the difference itself.
timedelta_seconds(delta) == delta % 86400

NoEntry == [present |-> FALSE, data |-> <<>>, timestamp |-> 0]

\* PolymarketService._is_cache_valid
_is_cache_valid(key) ==
  IF ~cache[key].present THEN FALSE
  ELSE timedelta_seconds(now - cache[key].timestamp) < cache_timeout

\* PolymarketService._set_cache
_set_cache(key, data) ==
  cache' = [cache EXCEPT ![key] = [present |-> TRUE, data |-> data, timestamp |-> now]]

NoEnd == [text |-> "", format |-> "none", hours |-> 0, past |-> FALSE]

\* Polymarket.map_api_to_market: the id is read with int(), which raises
\* ValueError on a text that is not a number; a key the record does not
\* have takes its default.  The dict the service builds from the result.
map_api_to_market(raw) ==
  LET id == IF "id" \in DOMAIN raw THEN int(raw.id) ELSE [raises |-> FALSE, value |-> 0] IN
  [raises |-> IF id.raises THEN "ValueError" ELSE "",
   id |-> id.value, question |-> get(raw, "question", ""),
   end |-> get(raw, "endDate", get(raw, "end", NoEnd)),
   active |-> get(raw, "active", TRUE), funded |-> get(raw, "funded", TRUE),
   rewardsMinSize |-> get(raw, "rewardsMinSize", 0), spread |-> get(raw, "spread", 0)]

market_dict(market) ==
  [id |-> market.id, question |-> market.question, end |-> market.end,
   active |-> market.active, funded |-> market.funded,
   rewardsMinSize |-> market.rewardsMinSize, spread |-> market.spread,
   category |-> detect_category(market.question)]

\* The loop of Polymarket.get_all_markets on a status answer.  A record that
\* map_api_to_market raises on is passed over.  A market is left out when
\* its end date has an offset and is not after the current time; a date
\* that does not parse, or that has no offset and so cannot be compared
\* with the current time (TypeError), keeps the market in, and so does an
\* empty end.  An exception of httpx.get is not caught.
RECURSIVE CurrentMarkets(_, _)
CurrentMarkets(body, i) ==
  IF i > Len(body) THEN <<>>
  ELSE LET market_data == map_api_to_market(body[i]) IN
       IF market_data.raises # "" THEN CurrentMarkets(body, i + 1)
       ELSE IF market_data.end.text # ""
               /\ market_data.end.format = "aware" /\ market_data.end.past
            THEN CurrentMarkets(body, i + 1)
       ELSE <<market_data>> \o CurrentMarkets(body, i + 1)

client_get_all_markets(resp) ==
  IF resp.status_code = 200 THEN CurrentMarkets(resp.body, 1) ELSE <<>>

\* Polymarket.get_market on a status answer: the first match of a 200, None
\* (the empty option) for any other status; data[0] of an empty list raises,
\* and so does map_api_to_market on an id that is not a number.
client_get_market(resp) ==
  IF resp.status_code = 200
  THEN IF Len(resp.body) = 0
       THEN [raises |-> "IndexError", market |-> <<>>]
       ELSE LET market == map_api_to_market(resp.body[1]) IN
            IF market.raises # "" THEN [raises |-> market.raises, market |-> <<>>]
            ELSE [raises |-> "", market |-> <<market>>]
  ELSE [raises |-> "", market |-> <<>>]

\* The key of a descending sort: x.get(sort_by, 0) in the markets handler,
\* where the dicts of the service carry no "volume"; x.spread in
\* get_tradeable_markets; len(x["markets"]) in get_events_with_markets.
sort_key(x, sort_by) ==
  IF sort_by = "spread" THEN x.spread
  ELSE IF sort_by = "markets" THEN Len(x.markets)
  ELSE 0

\* list.sort(key=..., reverse=True): descending, equal keys in their
\* original order.
RECURSIVE sort_descending(_, _)
sort_descending(s, sort_by) ==
  IF Len(s) = 0 THEN <<>>
  ELSE LET best == CHOOSE i \in 1..Len(s) :
                     /\ \A j \in 1..Len(s) : sort_key(s[j], sort_by) <= sort_key(s[i], sort_by)
                     /\ \A j \in 1..(i - 1) : sort_key(s[j], sort_by) < sort_key(s[i], sort_by)
       IN <<s[best]>> \o sort_descending(SubSeq(s, 1, best - 1) \o SubSeq(s, best + 1, Len(s)),
                                         sort_by)

\* markets[:limit]
Take(s, n) == SubSeq(s, 1, IF Len(s) < n THEN Len(s) ELSE n)

\* f"all_markets_{limit}"
all_markets_key(limit) == "all_markets_" \o ToString(limit)

market_key(market_id) == "market_" \o market_id

\* f"all_events_{limit}"
all_events_key(limit) == "all_events_" \o ToString(limit)

\* f"tradeable_markets_{limit}"
tradeable_markets_key(limit) == "tradeable_markets_" \o ToString(limit)

\* f"events_with_markets_{limit}"
events_with_markets_key(limit) == "events_with_markets_" \o ToString(limit)

\* Lines 67-73 of get_tradeable_markets: the filter, the sort by spread
\* (highest first, equal spreads in the order of the filter), the slice.
tradeable_markets(fetched, limit) ==
  Take(sort_descending(filter_markets_for_trading(fetched), "spread"), limit)

\* A JSON null where a dict is expected: .get on it raises AttributeError.
JsonNull == [null |-> TRUE]

IsNull(x) == "null" \in DOMAIN x

\* market_dict of get_events_with_markets: float() of a number is that number.
sub_market_dict(market) ==
  [id |-> get(market, "id", None), question |-> get(market, "question", ""),
   volume |-> get(market, "volume", 0), spread |-> get(market, "spread", 0),
   active |-> get(market, "active", TRUE),
   category |-> detect_category(get(market, "question", ""))]

\* Lines 241-262: the dicts of event["markets"][:10]; a sub-market that
\* raises is left out.
sub_markets(event) ==
  LET listed == IF "markets" \in DOMAIN event THEN Take(event.markets, 10) ELSE <<>>
      kept == SelectSeq(listed, LAMBDA m : ~IsNull(m))
  IN [i \in 1..Len(kept) |-> sub_market_dict(kept[i])]

\* Lines 224-259: event_dict with its markets appended.
event_with_markets(event) ==
  [id |-> get(event, "id", None), title |-> get(event, "title", ""),
   markets |-> sub_markets(event),
   category |-> detect_category(get(event, "title", ""))]

\* Lines 223-273: the loop over events_data[:limit], which keeps the events
\* that have markets, and the sort by number of markets, most first.  The
\* handler of an event's exception reads event.get('id'): for an event
\* that is null it raises in turn, out of the loop.
events_with_markets(events_data, limit) ==
  LET taken == Take(events_data, limit) IN
  IF \E i \in 1..Len(taken) : IsNull(taken[i])
  THEN [raises |-> "AttributeError", events |-> <<>>]
  ELSE LET dicts == [i \in 1..Len(taken) |-> event_with_markets(taken[i])]
           kept == SelectSeq(dicts, LAMBDA e : Len(e.markets) > 0)
       IN [raises |-> "", events |-> sort_descending(kept, "markets")]

\* event_dict of PolymarketService.get_all_events
event_dict(event) == [id |-> event.id, markets |-> event.markets]

SvcResult(op, kind, error, data, from_cache) ==
  [op |-> op, kind |-> kind, error |-> error, data |-> data, from_cache |-> from_cache]

NoSvcResult == SvcResult("none", "none", "", <<>>, FALSE)

\* The markets endpoint's handlers: ValueError answers 404, any other
\* exception 500.
endpoint_status(res) ==
  IF res.kind = "returned" THEN 200
  ELSE IF res.op = "get_market_by_id" /\ res.error = "ValueError" THEN 404
  ELSE 500

\* ---- SpecCatalog: the inputs ----

MaxTicks == 2        \* the clock advances at most this many times
MaxCalls == 2        \* the service receives at most this many requests
MaxPage == 2         \* raw markets in one upstream page

Ticks == {30, 86400}

Limits == {2}

MarketIds == {"1", "9"}

EndDate(text, format, hours, past) ==
  [text |-> text, format |-> format, hours |-> hours, past |-> past]

\* 1 is current; the end of 2 reads as a past date without an offset (a
\* text that does not parse goes the same way); 3 has ended; 4 is current,
\* unfunded and of a wider spread than 1; the id of the last is not a
\* number.
RawCatalog ==
  { [id |-> "1", question |-> "Will the Fed cut rates?",
     end |-> EndDate("2099-06-01T00:00:00Z", "aware", 600000, FALSE), active |-> TRUE,
     spread |-> 1],
    [id |-> "2", question |-> "NBA finals",
     end |-> EndDate("2020-06-01T00:00:00", "naive", 0, TRUE), active |-> FALSE,
     spread |-> 5],
    [id |-> "3", question |-> "Bitcoin above $100?",
     end |-> EndDate("2020-01-01T00:00:00Z", "aware", -50000, TRUE), active |-> TRUE,
     spread |-> 3],
    [id |-> "4", question |-> "NBA mvp",
     end |-> EndDate("2099-06-01T00:00:00Z", "aware", 600000, FALSE), active |-> TRUE,
     funded |-> FALSE, spread |-> 4],
    [id |-> "m5", question |-> "FDA drug",
     end |-> EndDate("2099-06-01T00:00:00Z", "aware", 600000, FALSE), active |-> TRUE,
     spread |-> 2] }

CacheKeys ==
  {all_markets_key(l) : l \in Limits} \cup {market_key(m) : m \in MarketIds}
    \cup {all_events_key(l) : l \in Limits}
    \cup {tradeable_markets_key(l) : l \in Limits}
    \cup {events_with_markets_key(l) : l \in Limits}

Failures ==
  { [kind |-> "exception", status_code |-> 0, body |-> <<>>],
    [kind |-> "status", status_code |-> 500, body |-> <<>>] }

AllMarketsResponses ==
  Failures \cup { [kind |-> "status", status_code |-> 200, body |-> b] :
                    b \in ListsOver(RawCatalog, MaxPage) }

RawEventPage == { [id |-> "1", volume |-> 20000], [id |-> "2", volume |-> 500] }

AllEventsResponses ==
  Failures \cup { [kind |-> "status", status_code |-> 200, body |-> b] :
                    b \in ListsOver(RawEventPage, MaxPage) }

SubMarket(id, question) == [id |-> id, question |-> question, volume |-> 100]

\* An event of one sub-market; one without any; one whose list holds a
\* null between two sub-markets; one of eleven sub-markets.
GammaEvents ==
  { [id |-> "e1", title |-> "NBA finals", markets |-> <<SubMarket("11", "Lakers win?")>>],
    [id |-> "e2", title |-> "Fed decision"],
    [id |-> "e3", title |-> "Bitcoin",
     markets |-> <<SubMarket("31", "Bitcoin above $100?"), JsonNull,
                   [id |-> "32"]>>],
    [id |-> "e4", title |-> "Election",
     markets |-> [i \in 1..11 |-> SubMarket(ToString(40 + i), "Senate seat?")]] }

\* What GammaMarketClient.get_events gave back: it raised, or a list of
\* events, one of which may be null.
EventsWithMarketsResponses ==
  { [kind |-> "exception", body |-> <<>>] }
    \cup { [kind |-> "returned", body |-> b] :
             b \in {<<>>} \cup { <<e>> : e \in GammaEvents \cup {JsonNull} }
                   \cup { <<[id |-> "e1", title |-> "NBA finals",
                             markets |-> <<SubMarket("11", "Lakers win?")>>], e>> :
                             e \in GammaEvents \cup {JsonNull} }
                   \cup { <<[id |-> "e2", title |-> "Fed decision"],
                            [id |-> "e1", title |-> "NBA finals",
                             markets |-> <<SubMarket("11", "Lakers win?")>>],
                            [id |-> "e4", title |-> "Election",
                             markets |-> <<SubMarket("41", "Senate seat?")>>]>> } }

\* The venue answers a lookup with the record of that id, with nothing,
\* or with a record whose id is not a number.
MarketResponses(market_id) ==
  Failures \cup { [kind |-> "status", status_code |-> 200,
                   body |-> SelectSeq(<<r>>, LAMBDA x : x.id = market_id \/ int(x.id).raises)] :
                    r \in RawCatalog }

CatalogInit ==
  /\ now = 0
  /\ ticks = 0
  /\ calls = 0
  /\ cache = [k \in CacheKeys |-> NoEntry]
  /\ svc_pc = "idle"
  /\ svc_key = ""
  /\ svc_arg = <<>>
  /\ svc_response = NoResponse
  /\ svc_result = NoSvcResult
  /\ http_status = 0

CatalogIdle ==
  /\ now = 0
  /\ ticks = 0
  /\ calls = 0
  /\ cache = [k \in CacheKeys |-> NoEntry]
  /\ svc_pc = "off"
  /\ svc_key = ""
  /\ svc_arg = <<>>
  /\ svc_response = NoResponse
  /\ svc_result = NoSvcResult
  /\ http_status = 0

\* ---- SpecCatalog: the steps ----

Tick(d) ==
  /\ ticks < MaxTicks
  /\ ticks' = ticks + 1
  /\ now' = now + d
  /\ UNCHANGED notCatalogVars
  /\ UNCHANGED <<calls, cache, svc_pc, svc_key, svc_arg, svc_response, svc_result, http_status>>

\* A request up to its await: a valid entry is served, otherwise the fetch
\* is dispatched.
Call(op, key, arg) ==
  /\ svc_pc = "idle"
  /\ calls < MaxCalls
  /\ calls' = calls + 1
  /\ svc_key' = key
  /\ svc_arg' = arg
  /\ svc_response' = NoResponse
  /\ IF _is_cache_valid(key)
     THEN /\ svc_result' = SvcResult(op, "returned", "", cache[key].data, TRUE)
          /\ http_status' = 200
          /\ UNCHANGED svc_pc
     ELSE /\ svc_pc' = op
          /\ svc_result' = NoSvcResult
          /\ http_status' = 0
  /\ UNCHANGED <<now, ticks, cache>>
  /\ UNCHANGED notCatalogVars

\* GET /markets/ -> PolymarketService.get_all_markets(limit)
GetAllMarketsCall(limit) ==
  Call("get_all_markets", all_markets_key(limit), <<limit>>)

\* GET /markets/{market_id} -> PolymarketService.get_market_by_id(market_id)
GetMarketByIdCall(market_id) ==
  Call("get_market_by_id", market_key(market_id), <<market_id>>)

Answer(res) ==
  /\ svc_pc' = "idle"
  /\ svc_result' = res
  /\ http_status' = endpoint_status(res)

GetAllMarketsReturn(resp) ==
  /\ svc_pc = "get_all_markets"
  /\ svc_response' = resp
  /\ IF resp.kind = "exception"
     THEN /\ Answer(SvcResult("get_all_markets", "raised", "TransportError", <<>>, FALSE))
          /\ UNCHANGED cache
     ELSE LET fetched == client_get_all_markets(resp)
              taken == Take(fetched, svc_arg[1])
              markets_data == [i \in 1..Len(taken) |-> market_dict(taken[i])]
          IN /\ _set_cache(svc_key, markets_data)
             /\ Answer(SvcResult("get_all_markets", "returned", "", markets_data, FALSE))
  /\ UNCHANGED <<now, ticks, calls, svc_key, svc_arg>>
  /\ UNCHANGED notCatalogVars

\* GET /markets/events/ -> PolymarketService.get_all_events(limit)
GetAllEventsCall(limit) ==
  Call("get_all_events", all_events_key(limit), <<limit>>)

\* Polymarket.get_all_events has caught every failure and returned []; the
\* service stores and returns what it got.
GetAllEventsReturn(resp) ==
  /\ svc_pc = "get_all_events"
  /\ svc_response' = resp
  /\ LET taken == Take(get_all_events(resp), svc_arg[1])
         events_data == [i \in 1..Len(taken) |-> event_dict(taken[i])]
     IN /\ _set_cache(svc_key, events_data)
        /\ Answer(SvcResult("get_all_events", "returned", "", events_data, FALSE))
  /\ UNCHANGED <<now, ticks, calls, svc_key, svc_arg>>
  /\ UNCHANGED notCatalogVars

\* GET /markets/?tradeable_only=true -> PolymarketService.get_tradeable_markets(limit)
GetTradeableMarketsCall(limit) ==
  Call("get_tradeable_markets", tradeable_markets_key(limit), <<limit>>)

\* Line 66: the fetch is back; the filter is dispatched to the executor.
GetTradeableMarketsFetched(resp) ==
  /\ svc_pc = "get_tradeable_markets"
  /\ svc_response' = resp
  /\ IF resp.kind = "exception"
     THEN Answer(SvcResult("get_tradeable_markets", "raised", "TransportError", <<>>, FALSE))
     ELSE /\ svc_pc' = "filter_markets_for_trading"
          /\ UNCHANGED <<svc_result, http_status>>
  /\ UNCHANGED <<now, ticks, calls, cache, svc_key, svc_arg>>
  /\ UNCHANGED notCatalogVars

\* Lines 67-92: the filter is back; the sort, the slice, the dicts, the
\* store.
GetTradeableMarketsReturn ==
  /\ svc_pc = "filter_markets_for_trading"
  /\ LET tradeable == tradeable_markets(client_get_all_markets(svc_response), svc_arg[1])
         markets_data == [i \in 1..Len(tradeable) |-> market_dict(tradeable[i])]
     IN /\ _set_cache(svc_key, markets_data)
        /\ Answer(SvcResult("get_tradeable_markets", "returned", "", markets_data, FALSE))
  /\ UNCHANGED <<now, ticks, calls, svc_key, svc_arg, svc_response>>
  /\ UNCHANGED notCatalogVars

\* GET /markets/events -> PolymarketService.get_events_with_markets(limit)
GetEventsWithMarketsCall(limit) ==
  Call("get_events_with_markets", events_with_markets_key(limit), <<limit>>)

\* Lines 217-280: gamma.get_events is back; an exception is re-raised, the
\* events that have markets are stored otherwise.
GetEventsWithMarketsReturn(resp) ==
  /\ svc_pc = "get_events_with_markets"
  /\ svc_response' = resp
  /\ IF resp.kind = "exception"
     THEN /\ Answer(SvcResult("get_events_with_markets", "raised", "TransportError", <<>>, FALSE))
          /\ UNCHANGED cache
     ELSE LET got == events_with_markets(resp.body, svc_arg[1]) IN
          IF got.raises # ""
          THEN /\ Answer(SvcResult("get_events_with_markets", "raised", got.raises, <<>>, FALSE))
               /\ UNCHANGED cache
          ELSE /\ _set_cache(svc_key, got.events)
               /\ Answer(SvcResult("get_events_with_markets", "returned", "", got.events, FALSE))
  /\ UNCHANGED <<now, ticks, calls, svc_key, svc_arg>>
  /\ UNCHANGED notCatalogVars

GetMarketByIdReturn(resp) ==
  /\ svc_pc = "get_market_by_id"
  /\ svc_response' = resp
  /\ IF resp.kind = "exception"
     THEN /\ Answer(SvcResult("get_market_by_id", "raised", "TransportError", <<>>, FALSE))
          /\ UNCHANGED cache
     ELSE LET got == client_get_market(resp) IN
          IF got.raises # ""
          THEN /\ Answer(SvcResult("get_market_by_id", "raised", got.raises, <<>>, FALSE))
               /\ UNCHANGED cache
          ELSE IF Len(got.market) > 0
               THEN LET d == <<market_dict(got.market[1])>> IN
                    /\ _set_cache(svc_key, d)
                    /\ Answer(SvcResult("get_market_by_id", "returned", "", d, FALSE))
               ELSE /\ Answer(SvcResult("get_market_by_id", "raised", "ValueError", <<>>, FALSE))
                    /\ UNCHANGED cache
  /\ UNCHANGED <<now, ticks, calls, svc_key, svc_arg>>
  /\ UNCHANGED notCatalogVars

(***************************************************************************)
(* Floats                                                                  *)
(*                                                                         *)
(* A Python float is an IEEE 754 double.  It is held as the record         *)
(*   [neg, m, e]: the value is m * 2^e, negated when neg holds.  m is a    *)
(*   natural number below 2^53, and at least 2^52 unless e is -1074, the   *)
(*   exponent of the subnormal numbers.  Zero is m = 0 with e = 0, and     *)
(*   infinity is m = 0 with e = 1024.                                      *)
(* A natural number of any size is the sequence of its digits in base      *)
(* Limb, the lowest first and the highest not zero; 0 is <<>>.             *)
(* An operation on floats is the exact operation on the values, rounded to *)
(* the nearest double, to the even one of two equally near: what float(),  *)
(* -, * and / of the interpreter do.  A zero result is held as +0.0, and   *)
(* no operation here is given operands for which the result is not a       *)
(* number.                                                                 *)
(***************************************************************************)

Limb == 128 * 128

\* The number of binary digits of n.
RECURSIVE BitLen(_)
BitLen(n) == IF n = 0 THEN 0 ELSE 1 + BitLen(n \div 2)

\* The binary digits of one digit.
LimbBits == BitLen(Limb) - 1

BigDigit(a, i) == IF i >= 1 /\ i <= Len(a) THEN a[i] ELSE 0

\* The digits without the zeros at the top.
BigTrim(a) ==
  IF Len(a) = 0 THEN <<>>
  ELSE
  LET used == {i \in 1..Len(a) : a[i] # 0} IN
  IF used = {} THEN <<>>
  ELSE SubSeq(a, 1, CHOOSE i \in used : \A k \in used : k <= i)

\* The natural number n as digits.
RECURSIVE BigOf(_)
BigOf(n) == IF n = 0 THEN <<>> ELSE <<n % Limb>> \o BigOf(n \div Limb)

\* The carry into digit i of a + b: some lower digit overflows, and every
\* digit between passes a carry on.
Carry(a, b, i) ==
  \E j \in 1..(i - 1) :
    /\ BigDigit(a, j) + BigDigit(b, j) >= Limb
    /\ \A k \in (j + 1)..(i - 1) : BigDigit(a, k) + BigDigit(b, k) = Limb - 1

\* a + b
BigAdd(a, b) ==
  IF Len(a) = 0 THEN BigTrim(b)
  ELSE IF Len(b) = 0 THEN BigTrim(a)
  ELSE
  LET n == (IF Len(a) > Len(b) THEN Len(a) ELSE Len(b)) + 1 IN
  BigTrim([i \in 1..n |->
             (BigDigit(a, i) + BigDigit(b, i) + (IF Carry(a, b, i) THEN 1 ELSE 0)) % Limb])

\* The borrow from digit i of a - b.
Borrow(a, b, i) ==
  \E j \in 1..(i - 1) :
    /\ a[j] < BigDigit(b, j)
    /\ \A k \in (j + 1)..(i - 1) : a[k] = BigDigit(b, k)

\* a - b, for a at least b.
BigSub(a, b) ==
  IF Len(b) = 0 THEN a
  ELSE
  BigTrim([i \in 1..Len(a) |->
             (a[i] - BigDigit(b, i) - (IF Borrow(a, b, i) THEN 1 ELSE 0) + Limb) % Limb])

\* a * k, for k up to Limb: the low parts of the digit products, plus their
\* high parts one place up.
BigTimes(a, k) ==
  IF Len(a) = 0 \/ k = 0 THEN <<>>
  ELSE
  BigAdd([i \in 1..Len(a) |-> (a[i] * k) % Limb],
         [i \in 1..(Len(a) + 1) |-> IF i = 1 THEN 0 ELSE (a[i - 1] * k) \div Limb])

\* a * k + c, for k up to Limb.
BigMulAdd(a, k, c) == BigAdd(BigTimes(a, k), BigOf(c))

\* a * Limb^n
BigShiftDigits(a, n) ==
  IF Len(a) = 0 \/ n = 0 THEN a ELSE [i \in 1..n |-> 0] \o a

\* a * (the digits i to j of b, as a number); the range is halved at each
\* step.
RECURSIVE BigMulRange(_, _, _, _)
BigMulRange(a, b, i, j) ==
  IF i > j THEN <<>>
  ELSE IF i = j THEN BigTimes(a, b[i])
  ELSE LET mid == (i + j) \div 2 IN
       BigAdd(BigMulRange(a, b, i, mid),
              BigShiftDigits(BigMulRange(a, b, mid + 1, j), mid + 1 - i))

\* a * b
BigMul(a, b) ==
  IF Len(a) = 0 \/ Len(b) = 0 THEN <<>> ELSE BigMulRange(a, b, 1, Len(b))

\* -1, 0 or 1 as a is below, equal to or above b.
BigCmp(a, b) ==
  IF Len(a) # Len(b) THEN (IF Len(a) < Len(b) THEN -1 ELSE 1)
  ELSE LET differ == {i \in 1..Len(a) : a[i] # b[i]} IN
       IF differ = {} THEN 0
       ELSE LET top == CHOOSE i \in differ : \A k \in differ : k <= i IN
            IF a[top] < b[top] THEN -1 ELSE 1

\* a * 2^n
BigShl(a, n) == BigShiftDigits(BigTimes(a, 2 ^ (n % LimbBits)), n \div LimbBits)

\* The number of binary digits of a.
BigBits(a) == IF Len(a) = 0 THEN 0 ELSE LimbBits * (Len(a) - 1) + BitLen(a[Len(a)])

\* 10^f, by squaring 10^(f \div 2).
RECURSIVE Pow10(_)
Pow10(f) ==
  IF f = 0 THEN <<1>>
  ELSE LET half   == Pow10(f \div 2)
           square == BigMul(half, half)
       IN IF f % 2 = 0 THEN square ELSE BigTimes(square, 10)

Zero == [neg |-> FALSE, m |-> <<>>, e |-> 0]

Infinity == [neg |-> FALSE, m |-> <<>>, e |-> 1024]

IsZero(x) == Len(x.m) = 0 /\ x.e = 0

IsInfinite(x) == Len(x.m) = 0 /\ x.e = 1024

\* n further binary digits of r / d, for r below d, appended to the digits
\* m: the digits [m] and the remainder [r].  The first half of the digits is
\* computed (the test on its remainder has it computed there), then the other
\* half from its remainder.
RECURSIVE QuotientBits(_, _, _, _)
QuotientBits(r, d, n, m) ==
  IF n = 0 THEN [m |-> m, r |-> r]
  ELSE IF n = 1
  THEN LET twice == BigTimes(r, 2) IN
       IF BigCmp(twice, d) >= 0
       THEN [m |-> BigMulAdd(m, 2, 1), r |-> BigSub(twice, d)]
       ELSE [m |-> BigTimes(m, 2), r |-> twice]
  ELSE LET first == QuotientBits(r, d, n \div 2, m) IN
       IF Len(first.r) < 0 THEN first
       ELSE QuotientBits(first.r, d, n - n \div 2, first.m)

\* The double nearest to (a / d) * 2^e, for natural numbers a and d, d not 0.
\* Shifted: a and d are scaled by powers of two to a0 and d0 of as many binary
\* digits.  Scaled: a0 is doubled when it is below d0, so that
\* d0 <= n < 2 * d0 and the value is (n / d0) * 2^x.  Aligned: it has p
\* significant binary digits, 53 unless it is subnormal.  Sized: the digits
\* are those of the quotient.  Divided: the quotient is rounded by its
\* remainder, which is below, at or above the half of d0.  Placed: rounding
\* may have carried to one digit more.
Nearest(a, d, e) ==
  LET Placed(m, x, p) ==
        IF BigBits(m) > 53
        THEN IF x + 1 > 1023 THEN Infinity
             ELSE [neg |-> FALSE, m |-> BigShl(<<1>>, 52), e |-> x - 51]
        ELSE [neg |-> FALSE, m |-> m, e |-> x - p + 1]
      Rounded(q, half, x, p) ==
        Placed(IF half > 0 \/ (half = 0 /\ q.m[1] % 2 = 1)
               THEN BigMulAdd(q.m, 1, 1) ELSE q.m, x, p)
      Divided(q, d0, x, p) == Rounded(q, BigCmp(BigTimes(q.r, 2), d0), x, p)
      Sized(n, d0, x, p) ==
        IF x > 1023 THEN Infinity
        ELSE IF p < 0 THEN Zero
        ELSE IF p = 0
        THEN IF BigCmp(n, d0) > 0 THEN [neg |-> FALSE, m |-> <<1>>, e |-> -1074] ELSE Zero
        ELSE Divided(QuotientBits(BigSub(n, d0), d0, p - 1, <<1>>), d0, x, p)
      Aligned(n, d0, x) == Sized(n, d0, x, IF x >= -1022 THEN 53 ELSE x + 1075)
      Compared(a0, d0, x0, below) ==
        Aligned(IF below THEN BigTimes(a0, 2) ELSE a0, d0, x0 - (IF below THEN 1 ELSE 0))
      Scaled(a0, d0, x0) == Compared(a0, d0, x0, BigCmp(a0, d0) < 0)
      Shifted(s) ==
        Scaled(IF s < 0 THEN BigShl(a, 0 - s) ELSE a, IF s > 0 THEN BigShl(d, s) ELSE d, e + s)
  IN IF Len(a) = 0 \/ Len(d) = 0 THEN Zero ELSE Shifted(BigBits(a) - BigBits(d))

\* The float of the decimal literal n / 10^f, n a natural number: 0.65 is
\* Decimal(65, 2).
Decimal(n, f) == Nearest(BigOf(n), Pow10(f), 0)

f64_neg(x) == IF IsZero(x) THEN x ELSE [x EXCEPT !.neg = ~x.neg]

\* The magnitude r with the sign neg; zero has none.
Signed(neg, r) == [r EXCEPT !.neg = neg /\ ~IsZero(r)]

f64_abs(x) == [x EXCEPT !.neg = FALSE]

\* -1, 0 or 1 as the magnitude of x is below, equal to or above that of y.
Rank(x) == IF IsZero(x) THEN -2000 ELSE x.e

MagnitudeCmp(x, y) ==
  IF Rank(x) # Rank(y) THEN (IF Rank(x) < Rank(y) THEN -1 ELSE 1)
  ELSE BigCmp(x.m, y.m)

\* x < y
f64_lt(x, y) ==
  IF x.neg # y.neg THEN x.neg
  ELSE IF x.neg THEN MagnitudeCmp(x, y) > 0
  ELSE MagnitudeCmp(x, y) < 0

\* x > y
f64_gt(x, y) == f64_lt(y, x)

\* x >= y and x <= y
f64_ge(x, y) == ~f64_lt(x, y)

f64_le(x, y) == ~f64_lt(y, x)

\* max(x, y) and min(x, y) of Python: the first argument unless the second
\* is strictly beyond it.
f64_max(x, y) == IF f64_gt(y, x) THEN y ELSE x

f64_min(x, y) == IF f64_lt(y, x) THEN y ELSE x

\* x + y.  An operand more than 64 binary places below the other is less
\* than a quarter of the gap between the other and its neighbours, and the
\* other is the result.
f64_add(x, y) ==
  IF IsInfinite(x) \/ IsZero(y) THEN x
  ELSE IF IsInfinite(y) \/ IsZero(x) THEN y
  ELSE IF x.e - y.e > 64 THEN x
  ELSE IF y.e - x.e > 64 THEN y
  ELSE
    LET low  == IF x.e < y.e THEN x.e ELSE y.e
        xm   == BigShl(x.m, x.e - low)
        ym   == BigShl(y.m, y.e - low)
        c    == BigCmp(xm, ym)
        sum  == IF x.neg = y.neg THEN BigAdd(xm, ym)
                ELSE IF c >= 0 THEN BigSub(xm, ym) ELSE BigSub(ym, xm)
    IN Signed(IF x.neg = y.neg \/ c >= 0 THEN x.neg ELSE y.neg, Nearest(sum, <<1>>, low))

\* x - y
f64_sub(x, y) == f64_add(x, f64_neg(y))

\* x * y
f64_mul(x, y) ==
  IF IsZero(x) \/ IsZero(y) THEN Zero
  ELSE IF IsInfinite(x) \/ IsInfinite(y) THEN [Infinity EXCEPT !.neg = (x.neg # y.neg)]
  ELSE Signed(x.neg # y.neg, Nearest(BigMul(x.m, y.m), <<1>>, x.e + y.e))

\* x / y, for y not zero.
f64_div(x, y) ==
  IF IsZero(x) \/ IsInfinite(y) THEN Zero
  ELSE IF IsInfinite(x) THEN [Infinity EXCEPT !.neg = (x.neg # y.neg)]
  ELSE Signed(x.neg # y.neg, Nearest(x.m, y.m, x.e - y.e))

(***************************************************************************)
(* EdgeEngine: AIService.calculate_market_edge                             *)
(*                                                                         *)
(* The analysis text is a sequence of code points, and a probability, a    *)
(* price and an edge are floats in the representation above.               *)
(***************************************************************************)

likelihood_of == codepoints("likelihood of ")

\* The position after the longest run of digits that starts at i.
DigitsEnd(text, i) ==
  CHOOSE j \in i..(Len(text) + 1) :
    /\ ~IsDigit(CharAt(text, j))
    /\ \A k \in i..(j - 1) : IsDigit(text[k])

\* \d*\.?\d+ matched at position i: the position after the match, 0 when
\* there is none.  The digits are taken greedily; the dot is taken only when
\* a digit follows it.
MatchNumberAt(text, i) ==
  LET e1 == DigitsEnd(text, i) IN
  IF CharAt(text, e1) = 46 /\ IsDigit(CharAt(text, e1 + 1)) THEN DigitsEnd(text, e1 + 2)
  ELSE IF e1 > i THEN e1
  ELSE 0

\* re.search(r'likelihood of (\d*\.?\d+)', text): group 1 of the leftmost
\* match, <<>> when the pattern matches nowhere.
prob_match(text) ==
  LET found == {k \in 1..(Len(text) - 13) :
                  /\ SubSeq(text, k, k + 13) = likelihood_of
                  /\ MatchNumberAt(text, k + 14) # 0}
  IN IF found = {} THEN <<>>
     ELSE LET k == CHOOSE f \in found : \A g \in found : f <= g IN
          SubSeq(text, k + 14, MatchNumberAt(text, k + 14) - 1)

\* The natural number written by the digits at positions i to j; the range
\* is halved at each step.
RECURSIVE ReadDigits(_, _, _)
ReadDigits(digits, i, j) ==
  IF i > j THEN <<>>
  ELSE IF i = j THEN BigOf(DigitValue(digits[i]))
  ELSE LET mid == (i + j) \div 2 IN
       BigAdd(BigMul(ReadDigits(digits, i, mid), Pow10(j - mid)),
              ReadDigits(digits, mid + 1, j))

\* float(group 1): the float nearest to the number written, which is its
\* digits over ten to the number of digits after the dot.
ParseFloat(group) ==
  LET digits == SelectSeq(group, LAMBDA c : c # 46)
      dots   == {i \in 1..Len(group) : group[i] = 46}
      after  == IF dots = {} THEN 0 ELSE Len(group) - (CHOOSE i \in dots : TRUE)
  IN Nearest(ReadDigits(digits, 1, Len(digits)), Pow10(after), 0)

\* The float literals of the function.
default_probability == Decimal(6, 1)

default_market_price == Decimal(65, 2)

min_probability == Decimal(1, 2)

max_probability == Decimal(99, 2)

high_edge == Decimal(1, 1)

medium_edge == Decimal(5, 2)

kelly_cap == Decimal(15, 2)

One == Decimal(1, 0)

Two == Decimal(2, 0)

Hundred == Decimal(100, 0)

\* `float(prob_match.group(1)) if prob_match else 0.6`
extract_probability(analysis_text) ==
  LET group == prob_match(lower(analysis_text)) IN
  IF Len(group) > 0 THEN ParseFloat(group) ELSE default_probability

\* A faulty variant of clamp, against which the properties are tried: the
\* lower bound is left out.
clamp_upper_only(x) == f64_min(max_probability, x)

\* max(0.01, min(0.99, ai_probability))
clamp(x) == f64_max(min_probability, f64_min(max_probability, x))

\* Lines 752-754: a value above 1.0 is read as a percentage, then the clamp.
normalize(x) == clamp(IF f64_gt(x, One) THEN f64_div(x, Hundred) ELSE x)

\* abs(ai_probability - current_market_price)
float_abs_diff(a, p) == f64_abs(f64_sub(a, p))

\* A faulty variant of relative_edge, against which the properties are
\* tried: the division is not guarded, and a zero price raises.
relative_edge_unguarded(absolute_edge, price) ==
  IF IsZero(price) THEN [raises |-> TRUE, value |-> Zero]
  ELSE [raises |-> FALSE, value |-> f64_mul(f64_div(absolute_edge, price), Hundred)]

\* `(absolute_edge / current_market_price) * 100 if current_market_price > 0 else 0`
relative_edge(absolute_edge, price) ==
  IF f64_gt(price, Zero)
  THEN [raises |-> FALSE, value |-> f64_mul(f64_div(absolute_edge, price), Hundred)]
  ELSE [raises |-> FALSE, value |-> Zero]

\* A faulty variant of confidence, against which the properties are tried:
\* the thresholds are not strict.
confidence_not_strict(absolute_edge) ==
  IF f64_ge(absolute_edge, high_edge) THEN "HIGH"
  ELSE IF f64_ge(absolute_edge, medium_edge) THEN "MEDIUM"
  ELSE "LOW"

\* `"HIGH" if absolute_edge > 0.1 else "MEDIUM" if absolute_edge > 0.05 else "LOW"`
confidence(absolute_edge) ==
  IF f64_gt(absolute_edge, high_edge) THEN "HIGH"
  ELSE IF f64_gt(absolute_edge, medium_edge) THEN "MEDIUM"
  ELSE "LOW"

EdgeResult(model, ai, price, absolute, relative, kelly, recommendation, conf) ==
  [model |-> model, ai_probability |-> ai, market_price |-> price,
   absolute_edge |-> absolute, relative_edge |-> relative, kelly_size |-> kelly,
   recommendation |-> recommendation, confidence |-> conf]

NoEdgeResult == EdgeResult("none", Zero, Zero, Zero, Zero, Zero, "", "")

\* Lines 786-805: the result of the normal path.
edge_metrics(ai, price) ==
  LET absolute_edge == float_abs_diff(ai, price) IN
  EdgeResult("edge-calculator", ai, price, absolute_edge,
             relative_edge(absolute_edge, price).value, f64_mul(absolute_edge, Two),
             IF f64_gt(ai, price) THEN "BUY" ELSE "SELL", confidence(absolute_edge))

\* Lines 807-830: the result of the except block, from the two random draws.
fallback_result(fallback_ai_prob, fallback_market_price) ==
  LET fallback_edge == float_abs_diff(fallback_ai_prob, fallback_market_price) IN
  EdgeResult("edge-calculator-fallback", fallback_ai_prob, fallback_market_price,
             fallback_edge,
             f64_mul(f64_div(fallback_edge, fallback_market_price), Hundred),
             f64_min(f64_mul(fallback_edge, Two), kelly_cap),
             IF f64_gt(fallback_ai_prob, fallback_market_price) THEN "BUY YES" ELSE "BUY NO",
             "LOW")

\* ---- SpecEdge: the inputs ----

\* What get_professional_market_analysis hands back under "analysis": the
\* text of the model, its own fallback text, or a value that is no string.
AnalysisTexts ==
  { "Likelihood of 65 percent", "likelihood of 1.5",
    "a likelihood of 0.65 for outcome of YES.", "likelihood of .7",
    "likelihood of 150", "likelihood of 0.005", "likelihood of 0.2", "no estimate",
    "likelihood of about 70, likelihood of 0.4", "likelihood of 0.1",
    "likelihood of 0.75", "LIKELIHOOD OF 65.5%" }

Analyses ==
  { [is_text |-> TRUE, text |-> t] : t \in AnalysisTexts }
    \cup { [is_text |-> FALSE, text |-> ""] }

\* The price lookup: get_all_markets raised, no market matched (or its
\* prices could not be read), or the first outcome price of the match.
PriceLookups ==
  { [kind |-> "raised", price |-> Zero], [kind |-> "not_found", price |-> Zero] }
    \cup { [kind |-> "price", price |-> Decimal(p, 2)] :
             p \in {0, 10, 30, 50, 55, 65, 70} }

\* round(random.uniform(0.3, 0.8), 2) and round(random.uniform(0.4, 0.7), 2)
FallbackProbabilities == {Decimal(30, 2), Decimal(55, 2), Decimal(80, 2)}

FallbackPrices == {Decimal(40, 2), Decimal(55, 2), Decimal(70, 2)}

EdgeInit ==
  /\ edge_pc = "idle"
  /\ analysis = [is_text |-> FALSE, text |-> ""]
  /\ ai_probability = Zero
  /\ current_market_price = Zero
  /\ llm_ok = FALSE
  /\ edge_result = NoEdgeResult

EdgeIdle ==
  /\ edge_pc = "off"
  /\ analysis = [is_text |-> FALSE, text |-> ""]
  /\ ai_probability = Zero
  /\ current_market_price = Zero
  /\ llm_ok = FALSE
  /\ edge_result = NoEdgeResult

\* ---- SpecEdge: the steps ----

\* The except block of calculate_market_edge: the fallback result is returned.
EdgeFallback(fallback_ai_prob, fallback_market_price) ==
  /\ edge_pc' = "done"
  /\ edge_result' = fallback_result(fallback_ai_prob, fallback_market_price)

\* Line 741: the call, up to the await of get_professional_market_analysis.
\* ai_probability and current_market_price are locals not yet assigned;
\* they are held as 0.0 until they are.
CalculateMarketEdge ==
  /\ edge_pc \in {"idle", "done"}
  /\ edge_pc' = "get_professional_market_analysis"
  /\ analysis' = [is_text |-> FALSE, text |-> ""]
  /\ ai_probability' = Zero
  /\ current_market_price' = Zero
  /\ llm_ok' = FALSE
  /\ edge_result' = NoEdgeResult
  /\ UNCHANGED notEdgeVars

\* Lines 744-760: the analysis is back; the probability is extracted and
\* normalised, the price is given its default of 0.65 (line 757) and the
\* price lookup is dispatched.  `.lower()` of a value that is no string
\* raises, which lands in the except block before the price is assigned.
AnalysisReturned(got, fallback_ai_prob, fallback_market_price) ==
  /\ edge_pc = "get_professional_market_analysis"
  /\ analysis' = got
  /\ UNCHANGED llm_ok
  /\ UNCHANGED notEdgeVars
  /\ IF got.is_text
     THEN /\ ai_probability' = normalize(extract_probability(got.text))
          /\ current_market_price' = default_market_price
          /\ edge_pc' = "get_all_markets"
          /\ UNCHANGED edge_result
     ELSE /\ EdgeFallback(fallback_ai_prob, fallback_market_price)
          /\ UNCHANGED <<ai_probability, current_market_price>>

\* Lines 758-784: the price lookup is back; the price found replaces the
\* default, which stays when the lookup raised or found no price; and the
\* edge prompt is sent to the model.
PriceReturned(lookup) ==
  /\ edge_pc = "get_all_markets"
  /\ current_market_price' =
       IF lookup.kind = "price" THEN lookup.price ELSE current_market_price
  /\ edge_pc' = "get_llm_response"
  /\ UNCHANGED <<analysis, ai_probability, llm_ok, edge_result>>
  /\ UNCHANGED notEdgeVars

\* Lines 780-830: the model answered, or the call raised; the metrics are
\* computed and returned, any exception landing in the except block.
LlmReturned(ok, fallback_ai_prob, fallback_market_price) ==
  /\ edge_pc = "get_llm_response"
  /\ llm_ok' = ok
  /\ UNCHANGED <<analysis, ai_probability, current_market_price>>
  /\ UNCHANGED notEdgeVars
  /\ IF ok /\ ~relative_edge(float_abs_diff(ai_probability, current_market_price),
                             current_market_price).raises
     THEN /\ edge_pc' = "done"
          /\ edge_result' = edge_metrics(ai_probability, current_market_price)
     ELSE EdgeFallback(fallback_ai_prob, fallback_market_price)

(***************************************************************************)
(* Concurrent trading cycles on one TradingService                         *)
(*                                                                         *)
(* The endpoints await run_autonomous_trading on the event loop, so a      *)
(* second request may start while the first is suspended at an await.      *)
(* Each cycle runs once; what the awaited calls return is abstracted to    *)
(* whether the cycle goes on to its next await or ends (by a return or by  *)
(* an exception: both pass through `finally`).                             *)
(***************************************************************************)

MaxCycles == 2       \* cycles started on the one service

Cycles == 1..MaxCycles

\* The await that follows each await when the cycle goes on.
NextAwait(stage) ==
  CASE stage = "get_all_events" -> "filter_events_with_rag"
    [] stage = "filter_events_with_rag" -> "map_filtered_events_to_markets"
    [] stage = "map_filtered_events_to_markets" -> "filter_markets"
    [] stage = "filter_markets" -> "source_best_trade"
    [] stage = "source_best_trade" -> "execute_market_order"
    [] OTHER -> "done"

\* Whether a cycle suspended at `stage` can go on to a further await: after
\* a forecast only a live cycle does (the order), after the order none.
CanGoOn(stage, d) ==
  /\ stage # "execute_market_order"
  /\ stage = "source_best_trade" => ~d

ConcurrentInit ==
  /\ cc_trader_dry_run \in BOOLEAN
  /\ cc_initial = cc_trader_dry_run
  /\ cc_pc = [c \in Cycles |-> "idle"]
  /\ cc_dry_run = [c \in Cycles |-> FALSE]
  /\ cc_original = [c \in Cycles |-> FALSE]

ConcurrentIdle ==
  /\ cc_trader_dry_run = FALSE
  /\ cc_initial = FALSE
  /\ cc_pc = [c \in Cycles |-> "off"]
  /\ cc_dry_run = [c \in Cycles |-> FALSE]
  /\ cc_original = [c \in Cycles |-> FALSE]

\* Lines 24-37 for cycle c: the flag is saved in the cycle's own local and
\* overridden; when pre_trade_logic raises, `finally` restores it at once.
CycleStart(c, d, pre_ok) ==
  /\ cc_pc[c] = "idle"
  /\ cc_dry_run' = [cc_dry_run EXCEPT ![c] = d]
  /\ cc_original' = [cc_original EXCEPT ![c] = cc_trader_dry_run]
  /\ IF pre_ok
     THEN /\ cc_trader_dry_run' = d
          /\ cc_pc' = [cc_pc EXCEPT ![c] = "get_all_events"]
     ELSE /\ cc_trader_dry_run' = cc_trader_dry_run
          /\ cc_pc' = [cc_pc EXCEPT ![c] = "done"]
  /\ UNCHANGED cc_initial
  /\ UNCHANGED notConcurrentVars

\* An awaited call of cycle c returns and the cycle runs to its next await.
CycleGoesOn(c) ==
  /\ cc_pc[c] \notin {"idle", "done", "off"}
  /\ CanGoOn(cc_pc[c], cc_dry_run[c])
  /\ cc_pc' = [cc_pc EXCEPT ![c] = NextAwait(cc_pc[c])]
  /\ UNCHANGED <<cc_trader_dry_run, cc_initial, cc_dry_run, cc_original>>
  /\ UNCHANGED notConcurrentVars

\* Lines 183-185: cycle c returns or raises, and `finally` writes the value
\* the cycle saved when it started.
CycleEnds(c) ==
  /\ cc_pc[c] \notin {"idle", "done", "off"}
  /\ cc_pc' = [cc_pc EXCEPT ![c] = "done"]
  /\ cc_trader_dry_run' = cc_original[c]
  /\ UNCHANGED <<cc_initial, cc_dry_run, cc_original>>
  /\ UNCHANGED notConcurrentVars

(***************************************************************************)
(* Concurrent catalog requests for one cache key                           *)
(*                                                                         *)
(* Each request is PolymarketService.get_all_markets(limit) with the same  *)
(* limit, run once; the cache is the one of the catalog above.             *)
(***************************************************************************)

MaxRequests == 2     \* requests for the one key

Requests == 1..MaxRequests

StampedeLimit == CHOOSE l \in Limits : TRUE

StampedeKey == all_markets_key(StampedeLimit)

StampedeInit ==
  /\ rq_pc = [r \in Requests |-> "idle"]
  /\ rq_result = [r \in Requests |-> NoSvcResult]
  /\ upstream_calls = 0

StampedeIdle ==
  /\ rq_pc = [r \in Requests |-> "off"]
  /\ rq_result = [r \in Requests |-> NoSvcResult]
  /\ upstream_calls = 0

\* Lines 22-29 for request r: a valid entry is served; otherwise the request
\* dispatches its own upstream fetch and suspends.
RequestCall(r) ==
  /\ rq_pc[r] = "idle"
  /\ IF _is_cache_valid(StampedeKey)
     THEN /\ rq_pc' = [rq_pc EXCEPT ![r] = "done"]
          /\ rq_result' = [rq_result EXCEPT ![r] =
               SvcResult("get_all_markets", "returned", "", cache[StampedeKey].data, TRUE)]
          /\ UNCHANGED upstream_calls
     ELSE /\ rq_pc' = [rq_pc EXCEPT ![r] = "get_all_markets"]
          /\ upstream_calls' = upstream_calls + 1
          /\ UNCHANGED rq_result
  /\ UNCHANGED catalogVars
  /\ UNCHANGED notStampedeVars

\* Lines 29-56 for request r: its fetch is back; the request stores and
\* returns what it got, or re-raises.
RequestReturn(r, resp) ==
  /\ rq_pc[r] = "get_all_markets"
  /\ rq_pc' = [rq_pc EXCEPT ![r] = "done"]
  /\ IF resp.kind = "exception"
     THEN /\ rq_result' = [rq_result EXCEPT ![r] =
               SvcResult("get_all_markets", "raised", "TransportError", <<>>, FALSE)]
          /\ UNCHANGED cache
     ELSE LET taken == Take(client_get_all_markets(resp), StampedeLimit)
              markets_data == [i \in 1..Len(taken) |-> market_dict(taken[i])]
          IN /\ _set_cache(StampedeKey, markets_data)
             /\ rq_result' = [rq_result EXCEPT ![r] =
                  SvcResult("get_all_markets", "returned", "", markets_data, FALSE)]
  /\ UNCHANGED <<now, ticks, calls, svc_pc, svc_key, svc_arg, svc_response, svc_result,
                 http_status, upstream_calls>>
  /\ UNCHANGED notStampedeVars

(***************************************************************************)
(* OrderGateway: Polymarket.execute_market_order                           *)
(*                                                                         *)
(* The function runs in a worker thread and makes its venue calls one      *)
(* after the other; each action is the code up to the next venue call.     *)
(* venue_calls is the list of calls made to the venue and the chain, in    *)
(* order.  The whole body is inside try/except Exception: any exception    *)
(* ends the call with None.                                                *)
(*                                                                         *)
(* Polymarket.__init__ builds the venue client only for a wallet with a    *)
(* private key.  Without one it raises, unless DRY_RUN is set: then the    *)
(* wallet is "demo_address" and self.client is None (demo mode).           *)
(***************************************************************************)

\* Lines 47-48, 69-77 and 120-137: the clients the constructor can build.
Clients ==
  { [dry_run |-> TRUE, client |-> "ClobClient"], [dry_run |-> TRUE, client |-> None],
    [dry_run |-> FALSE, client |-> "ClobClient"] }

Simulated == "simulated"

\* market.clob_token_ids as ast.literal_eval reads it, and market.trade.
OrderMarkets ==
  { [parses |-> p, token_ids |-> ids, side |-> s] :
      p \in BOOLEAN, ids \in {<<"101", "102">>, <<"101">>}, s \in {"none", "BUY", "SELL"} }

OrderInit ==
  /\ \E built \in Clients : client_dry_run = built.dry_run /\ clob_client = built.client
  /\ xo_pc = "idle"
  /\ xo_market = [parses |-> FALSE, token_ids |-> <<>>, side |-> "none"]
  /\ token_id = ""
  /\ venue_calls = <<>>
  /\ xo_result = "unset"

OrderIdle ==
  /\ client_dry_run = FALSE
  /\ clob_client = "ClobClient"
  /\ xo_pc = "off"
  /\ xo_market = [parses |-> FALSE, token_ids |-> <<>>, side |-> "none"]
  /\ token_id = ""
  /\ venue_calls = <<>>
  /\ xo_result = "unset"

\* Lines 688-700 and the returns: the call ends with res.
OrderEnds(res) ==
  /\ xo_pc' = "done"
  /\ xo_result' = res

\* Lines 621-633: the token ids are parsed and the token chosen (index 0
\* for a SELL trade, 1 otherwise); a string that does not parse and a
\* missing index raise.  Then the balance is read.
ExecuteMarketOrder(market) ==
  /\ xo_pc \in {"idle", "done"}
  /\ xo_market' = market
  /\ UNCHANGED <<client_dry_run, clob_client>>
  /\ UNCHANGED notOrderVars
  /\ LET index == IF market.side = "SELL" THEN 1 ELSE 2 IN
     IF market.parses /\ index <= Len(market.token_ids)
     THEN /\ token_id' = market.token_ids[index]
          /\ xo_pc' = "get_token_balance"
          /\ venue_calls' = <<"get_token_balance">>
          /\ xo_result' = "unset"
     ELSE /\ token_id' = ""
          /\ venue_calls' = <<>>
          /\ OrderEnds(None)

\* Lines 633-639: get_token_balance answers (0.0 when it failed inside); a
\* position already held ends the call with None.  Line 642 then calls
\* self.client.get_price: on the None of demo mode that is an
\* AttributeError, and the call ends with None before any venue call.
BalanceReturned(current_balance) ==
  /\ xo_pc = "get_token_balance"
  /\ UNCHANGED <<client_dry_run, clob_client, xo_market, token_id>>
  /\ UNCHANGED notOrderVars
  /\ IF current_balance > 0 \/ clob_client = None
     THEN /\ OrderEnds(None)
          /\ UNCHANGED venue_calls
     ELSE /\ xo_pc' = "get_price"
          /\ venue_calls' = Append(venue_calls, "get_price")
          /\ UNCHANGED xo_result

\* A venue call before the posting returns, or raises.  After create_order
\* the thread waits (time.sleep(1), lines 669-671) before it posts.
VenueCallReturned(raises) ==
  /\ xo_pc \in {"get_price", "get_order_book", "create_order"}
  /\ UNCHANGED <<client_dry_run, clob_client, xo_market, token_id>>
  /\ UNCHANGED notOrderVars
  /\ IF raises
     THEN /\ OrderEnds(None)
          /\ UNCHANGED venue_calls
     ELSE IF xo_pc = "create_order"
     THEN /\ xo_pc' = "sleep"
          /\ UNCHANGED <<venue_calls, xo_result>>
     ELSE LET next == CASE xo_pc = "get_price" -> "get_order_book"
                        [] xo_pc = "get_order_book" -> "create_order"
          IN /\ xo_pc' = next
             /\ venue_calls' = Append(venue_calls, next)
             /\ UNCHANGED xo_result

\* Lines 671-673: the wait is over and the signed order is posted.
SleepReturned ==
  /\ xo_pc = "sleep"
  /\ xo_pc' = "post_order"
  /\ venue_calls' = Append(venue_calls, "post_order")
  /\ UNCHANGED <<client_dry_run, clob_client, xo_market, token_id, xo_result>>
  /\ UNCHANGED notOrderVars

\* Lines 673-686: post_order returns or raises; only then is self.dry_run
\* read, and the simulated result returned in place of the venue's answer.
PostOrderReturned(raises, resp) ==
  /\ xo_pc = "post_order"
  /\ UNCHANGED <<client_dry_run, clob_client, xo_market, token_id, venue_calls>>
  /\ UNCHANGED notOrderVars
  /\ IF raises THEN OrderEnds(None)
     ELSE IF client_dry_run THEN OrderEnds(Simulated)
     ELSE OrderEnds(resp)

(***************************************************************************)
(* The markets endpoint: get_markets over the catalog cache                *)
(*                                                                         *)
(* A Python list is an object: the list PolymarketService.get_all_markets  *)
(* returns is the very list held in the cache entry, on a hit and on a     *)
(* miss alike.  A list comprehension of the handler builds a new list;     *)
(* list.sort reorders the list it is called on.  The cache is the one of   *)
(* the catalog above.                                                      *)
(***************************************************************************)

RequestedCategories == {None, "sports"}

SortKeys == {"spread", "volume", "end_date", "other"}

EndpointParams ==
  [limit : Limits, category : RequestedCategories, active_only : BOOLEAN,
   sort_by : SortKeys, tradeable_only : BOOLEAN]

NoParams ==
  [limit |-> 0, category |-> None, active_only |-> FALSE, sort_by |-> "other",
   tradeable_only |-> FALSE]

\* Lines 34-37: the method of the service the handler awaits, and the key
\* that method caches under.
endpoint_key(params) ==
  IF params.tradeable_only THEN tradeable_markets_key(params.limit)
  ELSE all_markets_key(params.limit)

EndpointKeys ==
  {all_markets_key(l) : l \in Limits} \cup {tradeable_markets_key(l) : l \in Limits}

\* Lines 39-45: each filter that applies rebinds markets_data to a new list.
BuildsNewList(params) == params.category # None \/ params.active_only

filter_by_params(data, params) ==
  LET of_category == IF params.category # None
                     THEN SelectSeq(data, LAMBDA m : m.category = params.category)
                     ELSE data
  IN IF params.active_only THEN SelectSeq(of_category, LAMBDA m : m.active) ELSE of_category

\* list.sort(key=lambda x: x.get("end", "")): ascending by the text of the
\* end date, equal texts in their original order.
RECURSIVE sort_ascending(_)
sort_ascending(s) ==
  IF Len(s) = 0 THEN <<>>
  ELSE LET first == CHOOSE i \in 1..Len(s) :
                      /\ \A j \in 1..Len(s) : ~str_lt(s[j].end.text, s[i].end.text)
                      /\ \A j \in 1..(i - 1) : str_lt(s[i].end.text, s[j].end.text)
       IN <<s[first]>> \o sort_ascending(SubSeq(s, 1, first - 1) \o SubSeq(s, first + 1, Len(s)))

\* Lines 48-53: the three keys the handler sorts on; any other sort_by
\* leaves the list as it is.
sort_markets(data, sort_by) ==
  IF sort_by \in {"spread", "volume"} THEN sort_descending(data, sort_by)
  ELSE IF sort_by = "end_date" THEN sort_ascending(data)
  ELSE data

\* Lines 48-53 as seen from the cache: what the list held in the entry is
\* after the handler has sorted markets_data, when markets_data is that list.
sort_in_place(data, params) ==
  IF ~BuildsNewList(params) THEN sort_markets(data, params.sort_by) ELSE data

\* Lines 39-53: the list the handler answers with.
markets_answered(data, params) ==
  sort_markets(filter_by_params(data, params), params.sort_by)

EndpointInit ==
  /\ ep_pc = "idle"
  /\ ep_params = NoParams
  /\ ep_fetched = <<>>
  /\ ep_stored = [k \in EndpointKeys |-> <<>>]
  /\ ep_markets = <<>>
  /\ ep_status = 0

EndpointIdle ==
  /\ ep_pc = "off"
  /\ ep_params = NoParams
  /\ ep_fetched = <<>>
  /\ ep_stored = [k \in EndpointKeys |-> <<>>]
  /\ ep_markets = <<>>
  /\ ep_status = 0

\* GET /markets/ up to the await of the service: on a cache hit the service
\* returns the list of the entry and the handler runs to its end.
GetMarkets(params) ==
  /\ ep_pc = "idle"
  /\ calls < MaxCalls
  /\ calls' = calls + 1
  /\ ep_params' = params
  /\ LET key == endpoint_key(params) IN
     IF _is_cache_valid(key)
     THEN /\ ep_markets' = markets_answered(cache[key].data, params)
          /\ cache' = [cache EXCEPT ![key].data = sort_in_place(cache[key].data, params)]
          /\ ep_status' = 200
          /\ UNCHANGED ep_pc
     ELSE /\ ep_pc' = IF params.tradeable_only THEN "get_tradeable_markets"
                      ELSE "get_all_markets"
          /\ ep_markets' = <<>>
          /\ ep_status' = 0
          /\ UNCHANGED cache
  /\ UNCHANGED <<now, ticks, svc_pc, svc_key, svc_arg, svc_response, svc_result,
                 http_status, ep_fetched, ep_stored>>
  /\ UNCHANGED notEndpointVars

\* The service has its list: it stores it and returns it; the handler
\* filters and sorts.
StoreAndAnswer(markets_data) ==
  LET key == endpoint_key(ep_params) IN
  /\ ep_stored' = [ep_stored EXCEPT ![key] = markets_data]
  /\ cache' = [cache EXCEPT ![key] =
       [present |-> TRUE, data |-> sort_in_place(markets_data, ep_params),
        timestamp |-> now]]
  /\ ep_markets' = markets_answered(markets_data, ep_params)
  /\ ep_status' = 200

\* The fetch of get_all_markets is back: the service stores the list and
\* returns it, or re-raises and the handler answers 500.
GetMarketsReturn(resp) ==
  /\ ep_pc = "get_all_markets"
  /\ ep_pc' = "idle"
  /\ IF resp.kind = "exception"
     THEN /\ ep_status' = 500
          /\ ep_markets' = <<>>
          /\ UNCHANGED <<cache, ep_stored>>
     ELSE LET taken == Take(client_get_all_markets(resp), ep_params.limit)
              markets_data == [i \in 1..Len(taken) |-> market_dict(taken[i])]
          IN StoreAndAnswer(markets_data)
  /\ UNCHANGED <<now, ticks, calls, svc_pc, svc_key, svc_arg, svc_response, svc_result,
                 http_status, ep_params, ep_fetched>>
  /\ UNCHANGED notEndpointVars

\* get_tradeable_markets, line 66: the fetch is back; the service re-raises
\* and the handler answers 500, or the filter is dispatched.
GetTradeableFetched(resp) ==
  /\ ep_pc = "get_tradeable_markets"
  /\ IF resp.kind = "exception"
     THEN /\ ep_pc' = "idle"
          /\ ep_status' = 500
          /\ UNCHANGED ep_fetched
     ELSE /\ ep_pc' = "filter_markets_for_trading"
          /\ ep_fetched' = client_get_all_markets(resp)
          /\ UNCHANGED ep_status
  /\ UNCHANGED <<now, ticks, calls, cache, svc_pc, svc_key, svc_arg, svc_response, svc_result,
                 http_status, ep_params, ep_stored, ep_markets>>
  /\ UNCHANGED notEndpointVars

\* get_tradeable_markets, lines 67-92: the filter is back; the service
\* sorts by spread, slices, stores and returns.
GetTradeableReturn ==
  /\ ep_pc = "filter_markets_for_trading"
  /\ ep_pc' = "idle"
  /\ LET tradeable == tradeable_markets(ep_fetched, ep_params.limit)
         markets_data == [i \in 1..Len(tradeable) |-> market_dict(tradeable[i])]
     IN StoreAndAnswer(markets_data)
  /\ ep_fetched' = <<>>
  /\ UNCHANGED <<now, ticks, calls, svc_pc, svc_key, svc_arg, svc_response, svc_result,
                 http_status, ep_params>>
  /\ UNCHANGED notEndpointVars

(***************************************************************************)
(* The specifications                                                      *)
(***************************************************************************)

InitCategory ==
  /\ CategoryInit
  /\ FilterIdle
  /\ CycleIdle
  /\ CatalogIdle
  /\ EdgeIdle
  /\ ConcurrentIdle
  /\ StampedeIdle
  /\ OrderIdle
  /\ EndpointIdle

NextCategory == DetectCategory

SpecCategory == InitCategory /\ [][NextCategory]_vars

InitFilter ==
  /\ FilterInit
  /\ CategoryIdle
  /\ CycleIdle
  /\ CatalogIdle
  /\ EdgeIdle
  /\ ConcurrentIdle
  /\ StampedeIdle
  /\ OrderIdle
  /\ EndpointIdle

NextFilter == FilterMarkets

SpecFilter == InitFilter /\ [][NextFilter]_vars

Init ==
  /\ CycleInit
  /\ CategoryIdle
  /\ FilterIdle
  /\ CatalogIdle
  /\ EdgeIdle
  /\ ConcurrentIdle
  /\ StampedeIdle
  /\ OrderIdle
  /\ EndpointIdle

Next ==
  \/ \E d \in BOOLEAN, pre_ok \in BOOLEAN : Start(d, pre_ok)
  \/ /\ pc = "get_all_events"
     /\ \E resp \in Responses : EventsReturned(resp)
  \/ /\ pc = "filter_events_with_rag"
     /\ \E raises \in BOOLEAN, kept \in Sublists(high_quality_events) :
          RagReturned(raises, kept)
  \/ \E raises \in BOOLEAN : MapReturned(raises)
  \/ /\ pc = "filter_markets"
     /\ \E raises \in BOOLEAN, kept \in Sublists(markets) :
          FilterMarketsReturned(raises, kept)
  \/ \E outcome \in ForecastOutcomes : ForecastReturned(outcome)
  \/ \E trade_result \in {"resp", None} : OrderReturned(trade_result)

Spec == Init /\ [][Next]_vars

\* The steps of a cycle other than the return of a forecast.  Every await
\* but the forecast is taken to return; the forecast is awaited without a
\* timeout (lines 115-119), so nothing makes it return.
StepsThatReturn ==
  \/ \E d \in BOOLEAN, pre_ok \in BOOLEAN : Start(d, pre_ok)
  \/ /\ pc = "get_all_events"
     /\ \E resp \in Responses : EventsReturned(resp)
  \/ /\ pc = "filter_events_with_rag"
     /\ \E raises \in BOOLEAN, kept \in Sublists(high_quality_events) :
          RagReturned(raises, kept)
  \/ \E raises \in BOOLEAN : MapReturned(raises)
  \/ /\ pc = "filter_markets"
     /\ \E raises \in BOOLEAN, kept \in Sublists(markets) :
          FilterMarketsReturned(raises, kept)
  \/ \E trade_result \in {"resp", None} : OrderReturned(trade_result)

FairSpec == Init /\ [][Next]_vars /\ WF_vars(StepsThatReturn)

InitCatalog ==
  /\ CatalogInit
  /\ CategoryIdle
  /\ FilterIdle
  /\ CycleIdle
  /\ EdgeIdle
  /\ ConcurrentIdle
  /\ StampedeIdle
  /\ OrderIdle
  /\ EndpointIdle

NextCatalog ==
  \/ \E d \in Ticks : Tick(d)
  \/ \E limit \in Limits : GetAllMarketsCall(limit)
  \/ /\ svc_pc = "get_all_markets"
     /\ \E resp \in AllMarketsResponses : GetAllMarketsReturn(resp)
  \/ \E limit \in Limits : GetAllEventsCall(limit)
  \/ /\ svc_pc = "get_all_events"
     /\ \E resp \in AllEventsResponses : GetAllEventsReturn(resp)
  \/ \E limit \in Limits : GetTradeableMarketsCall(limit)
  \/ /\ svc_pc = "get_tradeable_markets"
     /\ \E resp \in AllMarketsResponses : GetTradeableMarketsFetched(resp)
  \/ GetTradeableMarketsReturn
  \/ \E limit \in Limits : GetEventsWithMarketsCall(limit)
  \/ /\ svc_pc = "get_events_with_markets"
     /\ \E resp \in EventsWithMarketsResponses : GetEventsWithMarketsReturn(resp)
  \/ \E market_id \in MarketIds : GetMarketByIdCall(market_id)
  \/ /\ svc_pc = "get_market_by_id"
     /\ \E resp \in MarketResponses(svc_arg[1]) : GetMarketByIdReturn(resp)

SpecCatalog == InitCatalog /\ [][NextCatalog]_vars

InitEdge ==
  /\ EdgeInit
  /\ CategoryIdle
  /\ FilterIdle
  /\ CycleIdle
  /\ CatalogIdle
  /\ ConcurrentIdle
  /\ StampedeIdle
  /\ OrderIdle
  /\ EndpointIdle

NextEdge ==
  \/ CalculateMarketEdge
  \/ /\ edge_pc = "get_professional_market_analysis"
     /\ \E got \in Analyses, a \in FallbackProbabilities, p \in FallbackPrices :
          AnalysisReturned(got, a, p)
  \/ \E lookup \in PriceLookups : PriceReturned(lookup)
  \/ /\ edge_pc = "get_llm_response"
     /\ \E ok \in BOOLEAN, a \in FallbackProbabilities, p \in FallbackPrices :
          LlmReturned(ok, a, p)

SpecEdge == InitEdge /\ [][NextEdge]_vars

InitConcurrent ==
  /\ ConcurrentInit
  /\ CategoryIdle
  /\ FilterIdle
  /\ CycleIdle
  /\ CatalogIdle
  /\ EdgeIdle
  /\ StampedeIdle
  /\ OrderIdle
  /\ EndpointIdle

NextConcurrent ==
  \/ \E c \in Cycles, d \in BOOLEAN, pre_ok \in BOOLEAN : CycleStart(c, d, pre_ok)
  \/ \E c \in Cycles : CycleGoesOn(c)
  \/ \E c \in Cycles : CycleEnds(c)

SpecConcurrent == InitConcurrent /\ [][NextConcurrent]_vars

InitStampede ==
  /\ StampedeInit
  /\ CatalogIdle
  /\ CategoryIdle
  /\ FilterIdle
  /\ CycleIdle
  /\ EdgeIdle
  /\ ConcurrentIdle
  /\ OrderIdle
  /\ EndpointIdle

NextStampede ==
  \/ \E r \in Requests : RequestCall(r)
  \/ \E r \in Requests, resp \in AllMarketsResponses : RequestReturn(r, resp)

SpecStampede == InitStampede /\ [][NextStampede]_vars

InitOrder ==
  /\ OrderInit
  /\ CategoryIdle
  /\ FilterIdle
  /\ CycleIdle
  /\ CatalogIdle
  /\ EdgeIdle
  /\ ConcurrentIdle
  /\ StampedeIdle
  /\ EndpointIdle

NextOrder ==
  \/ \E market \in OrderMarkets : ExecuteMarketOrder(market)
  \/ \E current_balance \in {0, 5} : BalanceReturned(current_balance)
  \/ \E raises \in BOOLEAN : VenueCallReturned(raises)
  \/ SleepReturned
  \/ \E raises \in BOOLEAN, resp \in {"matched", "rejected"} : PostOrderReturned(raises, resp)

SpecOrder == InitOrder /\ [][NextOrder]_vars

InitEndpoint ==
  /\ EndpointInit
  /\ CatalogIdle
  /\ CategoryIdle
  /\ FilterIdle
  /\ CycleIdle
  /\ EdgeIdle
  /\ ConcurrentIdle
  /\ StampedeIdle
  /\ OrderIdle

NextEndpoint ==
  \/ \E d \in Ticks : Tick(d)
  \/ \E params \in EndpointParams : GetMarkets(params)
  \/ /\ ep_pc = "get_all_markets"
     /\ \E resp \in AllMarketsResponses : GetMarketsReturn(resp)
  \/ /\ ep_pc = "get_tradeable_markets"
     /\ \E resp \in AllMarketsResponses : GetTradeableFetched(resp)
  \/ GetTradeableReturn

SpecEndpoint == InitEndpoint /\ [][NextEndpoint]_vars

(***************************************************************************)
(* The claims                                                              *)
(***************************************************************************)

\* C1 (Spec): an invocation with dry_run = true never calls
\* execute_market_order, at any point of the invocation and however many
\* invocations came before it.
C1_DryRunNeverSubmits ==
  (pc # "idle" /\ dry_run) => (order_calls = 0 /\ pc # "execute_market_order")

\* A dry-run invocation that went all the way to a trade decision.
C1_Witness ==
  /\ pc = "done"
  /\ dry_run
  /\ result.success
  /\ result.market # None

\* C2 (SpecFilter): the returned list has at most 50 markets and at most 8
\* of any category that detect_category gives.
C2_BoundedAndDiverse ==
  fm_pc = "done" =>
    LET category == [i \in 1..Len(fm_featured) |-> detect_category(fm_featured[i].question)] IN
    /\ Len(fm_featured) <= 50
    /\ \A c \in Categories :
         Cardinality({i \in 1..Len(fm_featured) : category[i] = c}) <= 8

\* Both caps bite: more than 50 active markets came in and exactly 50 went
\* out, and a category with more than 8 active markets kept exactly 8.
C2_Witness ==
  /\ fm_pc = "done"
  /\ Cardinality({j \in 1..Len(fm_markets) : fm_markets[j].active}) > 50
  /\ Len(fm_featured) = 50
  /\ \E c \in Categories :
       /\ Cardinality({j \in 1..Len(fm_markets) :
            fm_markets[j].active /\ detect_category(fm_markets[j].question) = c}) > 8
       /\ Cardinality({i \in 1..Len(fm_featured) :
            detect_category(fm_featured[i].question) = c}) = 8

\* C3 (SpecFilter): no returned market has active = false, and a list of
\* inactive markets alone gives the empty list.
C3_NoInactiveMarket ==
  fm_pc = "done" =>
    /\ \A i \in 1..Len(fm_featured) : fm_featured[i].active
    /\ (\A j \in 1..Len(fm_markets) : ~fm_markets[j].active) => Len(fm_featured) = 0

\* An inactive market that would have scored highest came in with an active
\* one, and only the active one went out.
C3_Witness ==
  /\ fm_pc = "done"
  /\ \E j \in 1..Len(fm_markets) : ~fm_markets[j].active /\ fm_markets[j].id = 2
  /\ Len(fm_featured) = 1

\* The categories in their priority order and case-insensitive matching,
\* stated on the title itself: some window of the title equals the keyword
\* once both are folded to lower case.
CategoryOrder ==
  <<"politics", "sports", "crypto", "tech", "entertainment", "economy", "climate",
    "health">>

KeywordsInOrder ==
  <<politics_keywords, sports_keywords, crypto_keywords, tech_keywords,
    entertainment_keywords, economy_keywords, climate_keywords, health_keywords>>

MatchesIgnoringCase(c, title) ==
  \E k \in 1..Len(KeywordsInOrder[c]) :
    LET keyword == KeywordsInOrder[c][k] IN
    \E i \in 1..(Len(title) - Len(keyword) + 1) :
      lower(SubSeq(title, i, i + Len(keyword) - 1)) = lower_codepoints(keyword)

\* C4 (SpecCategory): detect_category returns the first category, in the
\* order politics, sports, crypto, tech, entertainment, economy, climate,
\* health, with a case-insensitive keyword match in the title, and other
\* when no category matches.
C4_FirstMatchingCategory ==
  dc_result # "unset" =>
    LET matching == {c \in 1..Len(CategoryOrder) : MatchesIgnoringCase(c, dc_question)} IN
    IF matching = {} THEN dc_result = "other"
    ELSE dc_result = CategoryOrder[CHOOSE c \in matching : \A o \in matching : c <= o]

\* A title in mixed case that matches a politics keyword and a crypto
\* keyword was classified politics.
C4_Witness ==
  /\ dc_result = "politics"
  /\ MatchesIgnoringCase(3, dc_question)
  /\ codepoints(dc_question) # lower(dc_question)

\* The forecast for a candidate gave an absolute edge above the threshold.
\* The threshold is not below zero, so an edge that clears it is not zero.
Clears(entry) == ~entry.raised /\ entry.trade /\ Abs(entry.edge) > 0

\* C5 (Spec), the claim as stated: a returned trade decision is for the
\* first candidate, in filtered order, whose absolute edge exceeds the
\* threshold; every earlier candidate that could be forecast was forecast
\* and did not clear it; and a cycle in which no forecast clears it returns
\* a no-opportunity result.
C5_FirstClearingCandidate ==
  pc = "done" =>
    /\ result.market # None =>
         LET n == Len(forecast_log) IN
         /\ n > 0
         /\ Clears(forecast_log[n])
         /\ filtered_markets[forecast_log[n].idx].id = result.market
         /\ result.edge = forecast_log[n].edge
         /\ \A k \in 1..(n - 1) : ~Clears(forecast_log[k])
         /\ \A j \in 1..(forecast_log[n].idx - 1) :
              filtered_markets[j].clob_token_ids # "" =>
                \E k \in 1..(n - 1) : forecast_log[k].idx = j
    /\ (result.outcome = "returned" /\ \A k \in 1..Len(forecast_log) : ~Clears(forecast_log[k]))
         => result \in {NoHighQuality, NoEligible}
    /\ result = NoEligible =>
         \A j \in 1..Len(filtered_markets) :
           filtered_markets[j].clob_token_ids # "" =>
             \E k \in 1..Len(forecast_log) :
               forecast_log[k].idx = j /\ ~Clears(forecast_log[k])

IngestionFailed ==
  response.kind = "exception" \/ (response.kind = "status" /\ response.status_code # 200)

\* C6 (Spec), the claim as stated: a cycle whose event fetch timed out or
\* answered a non-success status ends in an error, not in the result of a
\* cycle that found nothing tradeable.
C6_IngestionFailureIsAnError ==
  (pc = "done" /\ IngestionFailed) =>
    (result.outcome = "raised" /\ result # NoHighQuality)

StageCalls ==
  {"pre_trade_logic", "filter_events_with_rag", "map_filtered_events_to_markets",
   "filter_markets"}

\* An event yields a candidate: one of its market ids is served by the venue
\* as high quality, and every id before it was empty or served as not high
\* quality.
YieldsCandidate(event) ==
  LET ids == split(event.markets) IN
  \E k \in 1..Len(ids) :
    /\ ids[k] # ""
    /\ ~gamma_get_market(ids[k]).raises
    /\ IsHighQuality(gamma_get_market(ids[k]))
    /\ \A j \in 1..(k - 1) :
         \/ ids[j] = ""
         \/ ~gamma_get_market(ids[j]).raises /\ ~IsHighQuality(gamma_get_market(ids[j]))

\* C7 (Spec): an exception while one event is gated or one candidate is
\* forecast never makes the cycle raise (a cycle raises only for a call
\* outside the two loops); the events after a failing one are still gated,
\* in order, and the candidates after a failing one are still forecast.
C7_ItemErrorsAreIsolated ==
  /\ result.outcome = "raised" => result.message \in StageCalls
  /\ response.kind # "none" =>
       LET kept == SelectSeq(events, YieldsCandidate) IN
       /\ Len(high_quality_events) = Len(kept)
       /\ \A i \in 1..Len(kept) : high_quality_events[i].event = kept[i]
  /\ (pc = "done" /\ result = NoEligible) =>
       \A j \in 1..Len(filtered_markets) :
         filtered_markets[j].clob_token_ids # "" =>
           \E k \in 1..Len(forecast_log) : forecast_log[k].idx = j

\* The venue failed on the first event and the forecast failed on the first
\* candidate; the cycle still returned a trade decision, for a later one.
C7_Witness ==
  /\ pc = "done"
  /\ result.outcome = "returned"
  /\ result.market # None
  /\ Len(events) > 1
  /\ gamma_get_market(events[1].markets).raises
  /\ Len(forecast_log) > 1
  /\ forecast_log[1].raised

\* C8 (Spec): when an invocation has ended, however it ended, the trader's
\* dry_run flag is the one the invocation found when it started.
C8_FlagRestored ==
  pc = "done" => trader_dry_run = original_dry_run

\* An invocation that had overridden the flag ended by raising.
C8_Witness ==
  /\ pc = "done"
  /\ result.outcome = "raised"
  /\ response.kind # "none"
  /\ dry_run # original_dry_run

\* C9 (SpecCatalog), the claim as stated: a stored entry is valid exactly
\* when its age, now - timestamp, is under 60 seconds.
C9_ValidExactlyWhenFresh ==
  \A k \in CacheKeys :
    cache[k].present => (_is_cache_valid(k) <=> now - cache[k].timestamp < 60)

\* C10 (SpecCatalog), the claim as stated: a lookup that the upstream
\* answered with a non-success status or with an empty match list fails with
\* ValueError, which the endpoint answers 404.
C10_AbsentIsNotFound ==
  ( /\ svc_pc = "idle"
    /\ svc_result.op = "get_market_by_id"
    /\ svc_response.kind = "status"
    /\ (svc_response.status_code # 200 \/ Len(svc_response.body) = 0) )
  => ( /\ svc_result.kind = "raised"
       /\ svc_result.error = "ValueError"
       /\ http_status = 404 )

\* C11 (SpecCatalog), the claim as stated: a list operation of the catalog
\* whose upstream fetch raised or answered a non-success status returns an
\* empty collection and raises nothing.
C11_ListFailureGivesEmpty ==
  ( /\ svc_pc = "idle"
    /\ svc_result.op \in {"get_all_markets", "get_all_events"}
    /\ (svc_response.kind = "exception"
        \/ (svc_response.kind = "status" /\ svc_response.status_code # 200)) )
  => ( /\ svc_result.kind = "returned"
       /\ svc_result.data = <<>> )

\* C12 (Spec): in a live cycle, once the order submission has returned,
\* failed or not, the cycle has raised nothing: it has returned a result
\* that carries the trade decision, and success is false when the submission
\* failed.
C12_OrderFailureIsReported ==
  (pc = "done" /\ order_calls > 0) =>
    /\ result.outcome = "returned"
    /\ result.market = filtered_markets[idx].id
    /\ result.edge = get(best_trade[1], "edge", Number(0)).value
    /\ order_outcome = None => (~result.success /\ result.trade_result = None)
    /\ order_outcome # None => result.success

\* A live cycle whose order submission failed ended with the decision and
\* success = false.
C12_Witness ==
  /\ pc = "done"
  /\ ~dry_run
  /\ order_calls = 1
  /\ order_outcome = None
  /\ result.outcome = "returned"
  /\ ~result.success
  /\ result.market # None

\* The number the pattern extracts from the analysis text, as written.
ExtractedNumber == prob_match(lower(analysis.text))

ProbabilityComputed ==
  /\ edge_pc \in {"get_all_markets", "get_llm_response", "done"}
  /\ analysis.is_text

\* C13 (SpecEdge), the claim as stated: normalisation maps a forecast
\* probability of 65 to 0.65 and one of 1.5 to 0.99.
C13_NormalizationExamples ==
  ProbabilityComputed =>
    /\ ExtractedNumber = codepoints("65") => ai_probability = Decimal(65, 2)
    /\ ExtractedNumber = codepoints("1.5") => ai_probability = Decimal(99, 2)

\* C14 (SpecEdge): whatever the analysis text, the forecast probability
\* that enters the edge computation, and the ai_probability of the returned
\* result on either path, lie in [0.01, 0.99].
C14_ProbabilityClamped ==
  /\ ProbabilityComputed =>
       /\ f64_le(Decimal(1, 2), ai_probability)
       /\ f64_le(ai_probability, Decimal(99, 2))
  /\ edge_pc = "done" =>
       /\ f64_le(Decimal(1, 2), edge_result.ai_probability)
       /\ f64_le(edge_result.ai_probability, Decimal(99, 2))
       /\ edge_result.model = "edge-calculator" =>
            edge_result.ai_probability = ai_probability

\* The text gave a number that is above 0.99 also when read as a percentage,
\* and the result of the normal path carries 0.99.
C14_Witness ==
  /\ edge_pc = "done"
  /\ edge_result.model = "edge-calculator"
  /\ Len(ExtractedNumber) > 0
  /\ f64_gt(ParseFloat(ExtractedNumber), Decimal(99, 0))
  /\ edge_result.ai_probability = Decimal(99, 2)

\* C15 (SpecEdge): in every returned result relative_edge is
\* absolute_edge / price * 100 when the price is positive and 0 otherwise,
\* and a zero price raises nothing: with the analysis and the model's answer
\* in hand the result is that of the normal path, for the price found.
C15_RelativeEdgeGuarded ==
  edge_pc = "done" =>
    /\ f64_gt(edge_result.market_price, Zero) =>
         edge_result.relative_edge =
           f64_mul(f64_div(edge_result.absolute_edge, edge_result.market_price),
                   Decimal(100, 0))
    /\ f64_le(edge_result.market_price, Zero) => edge_result.relative_edge = Zero
    /\ (analysis.is_text /\ llm_ok) =>
         /\ edge_result.model = "edge-calculator"
         /\ edge_result.market_price = current_market_price

\* The price found was 0; the normal path returned relative_edge 0 for a
\* non-zero absolute edge.
C15_Witness ==
  /\ edge_pc = "done"
  /\ current_market_price = Zero
  /\ edge_result.model = "edge-calculator"
  /\ f64_gt(edge_result.absolute_edge, Zero)
  /\ edge_result.relative_edge = Zero

\* The float absolute_edge of the result is above the float of the
\* threshold.
EdgeAbove(threshold) == f64_gt(edge_result.absolute_edge, threshold)

\* C16 (SpecEdge): the confidence of a computed edge is HIGH when
\* absolute_edge > 0.10, MEDIUM when 0.05 < absolute_edge <= 0.10 and LOW
\* when absolute_edge <= 0.05, absolute_edge being the float of the result.
C16_ConfidenceBuckets ==
  (edge_pc = "done" /\ edge_result.model = "edge-calculator") =>
    /\ EdgeAbove(Decimal(10, 2)) => edge_result.confidence = "HIGH"
    /\ (EdgeAbove(Decimal(5, 2)) /\ ~EdgeAbove(Decimal(10, 2))) =>
         edge_result.confidence = "MEDIUM"
    /\ ~EdgeAbove(Decimal(5, 2)) => edge_result.confidence = "LOW"

\* An absolute edge of exactly 0.10 was reported MEDIUM.
C16_Witness ==
  /\ edge_pc = "done"
  /\ edge_result.model = "edge-calculator"
  /\ edge_result.absolute_edge = Decimal(10, 2)
  /\ edge_result.confidence = "MEDIUM"

\* C17 (SpecEdge), the claim as stated: in every returned result, of the
\* normal path and of the fallback path, kelly_size is twice absolute_edge.
C17_KellyIsTwiceTheEdge ==
  edge_pc = "done" =>
    edge_result.kelly_size = f64_mul(edge_result.absolute_edge, Decimal(2, 0))

\* C18 (SpecConcurrent), the claim as stated: once every one of the
\* interleaved cycles has finished, the trader's dry_run flag is the one it
\* had before the first of them started.
C18_FlagRestoredAfterInterleaving ==
  (\A c \in Cycles : cc_pc[c] = "done") => cc_trader_dry_run = cc_initial

\* C19 (SpecStampede), the claim as stated: concurrent misses on one cache
\* key are coalesced, so at most one upstream fetch for the key is in flight
\* at any time.
C19_OneFetchInFlight ==
  Cardinality({r \in Requests : rq_pc[r] = "get_all_markets"}) <= 1

\* C20 (SpecOrder), the claim as stated: with the client's dry_run flag
\* true, execute_market_order never calls post_order, and when it has run
\* through it returns the simulated result.
C20_DryRunPostsNothing ==
  client_dry_run =>
    /\ \A i \in 1..Len(venue_calls) : venue_calls[i] # "post_order"
    /\ xo_result \in {"unset", None, Simulated}

\* C21 (Spec): a live cycle submits at most one order; from the submission
\* on, the last forecast is the one of the submitted candidate, and the cycle
\* is either waiting for the submission or has ended with its result,
\* whether it succeeded or failed.
C21_AtMostOneSubmission ==
  (pc # "idle" /\ order_calls > 0) =>
    /\ order_calls = 1
    /\ ~dry_run
    /\ pc \in {"execute_market_order", "done"}
    /\ Len(forecast_log) > 0
    /\ forecast_log[Len(forecast_log)].idx = idx
    /\ forecast_log[Len(forecast_log)].trade
    /\ pc = "done" =>
         /\ result.outcome = "returned"
         /\ result.market = filtered_markets[idx].id
         /\ result.trade_result = order_outcome

\* The submission for the first candidate failed while a second candidate
\* with token ids was waiting; the cycle ended there, the second candidate
\* neither forecast nor submitted.
C21_Witness ==
  /\ pc = "done"
  /\ order_calls = 1
  /\ order_outcome = None
  /\ Len(forecast_log) = 1
  /\ \E j \in (idx + 1)..Len(filtered_markets) : ~HasNoTokens(filtered_markets[j])

\* C22 (SpecEndpoint), the claim as stated: from the moment a catalog entry
\* is stored until a refresh replaces it, the entry holds the elements that
\* were stored, in the order they were stored, whatever the endpoint has
\* done with the lists it was given.
C22_StoredListUntouched ==
  \A k \in EndpointKeys : cache[k].present => cache[k].data = ep_stored[k]

\* C23 (FairSpec), the claim as stated: a cycle that is waiting for a
\* forecast eventually finishes, also when that forecast never returns.
C23_CycleFinishesDespiteStalledForecast ==
  (pc = "source_best_trade") ~> (pc = "done")

\* A decision has been taken in the running cycle: an order is being
\* submitted, or the cycle has ended with a trade decision.
DecisionTaken ==
  \/ pc = "execute_market_order"
  \/ pc = "done" /\ result.market # None

\* C24 (Spec), the claim as stated: the stages run strictly one after the
\* other, each on the full output of the one before; no forecast is asked
\* for before the market filter has returned, and no decision or submission
\* happens before every surviving candidate has its forecast.
C24_StagesInStrictOrder ==
  /\ pc \in {"get_all_events", "filter_events_with_rag", "map_filtered_events_to_markets",
              "filter_markets"} => (Len(forecast_log) = 0 /\ order_calls = 0)
  /\ DecisionTaken =>
       \A j \in 1..Len(filtered_markets) :
         ~HasNoTokens(filtered_markets[j]) =>
           \E k \in 1..Len(forecast_log) : forecast_log[k].idx = j

\* The reference procedure of C25.  RefInsert puts a market into a list that
\* is already in order, after every market of greater or equal score;
\* RefSorted inserts the active markets from the last to the first, so that
\* equal scores stay in input order; RefWalk accepts a market when fewer than
\* 8 of its category are accepted, until 50 are.  The total score is the
\* sum of the five factors as the scorer adds them, in doubles.
RECURSIVE RefInsert(_, _)
RefInsert(m, sorted) ==
  IF Len(sorted) = 0 THEN <<m>>
  ELSE IF ~float_gt(market_score(Head(sorted)), market_score(m))
       THEN <<m>> \o sorted
       ELSE <<Head(sorted)>> \o RefInsert(m, Tail(sorted))

RECURSIVE RefSorted(_)
RefSorted(ms) ==
  IF Len(ms) = 0 THEN <<>>
  ELSE IF Head(ms).active THEN RefInsert(Head(ms), RefSorted(Tail(ms)))
       ELSE RefSorted(Tail(ms))

RECURSIVE RefWalk(_, _)
RefWalk(sorted, accepted) ==
  IF Len(sorted) = 0 \/ Len(accepted) = 50 THEN accepted
  ELSE LET c == detect_category(Head(sorted).question)
           same == Cardinality({i \in 1..Len(accepted) :
                                  detect_category(accepted[i].question) = c})
       IN RefWalk(Tail(sorted), IF same < 8 THEN Append(accepted, Head(sorted)) ELSE accepted)

\* C25 (SpecFilter): the list filter_markets_for_trading returns is the one
\* the reference procedure gives: the active markets sorted by total score,
\* highest first and ties in input order, walked with the cap of 8 per
\* category until 50 are accepted, in acceptance order.
C25_EqualsReferenceProcedure ==
  fm_pc = "done" => fm_featured = RefWalk(RefSorted(fm_markets), <<>>)

\* A catalog in which the walk stopped at 50, a category was capped, and two
\* markets of equal score were both accepted, in their input order.
C25_Witness ==
  /\ fm_pc = "done"
  /\ Len(fm_featured) = 50
  /\ \E c \in Categories :
       Cardinality({j \in 1..Len(fm_markets) :
          fm_markets[j].active /\ detect_category(fm_markets[j].question) = c}) > 8
  /\ \E a \in 1..Len(fm_featured) : \E b \in (a + 1)..Len(fm_featured) :
       /\ market_score(fm_featured[a]) = market_score(fm_featured[b])
       /\ fm_featured[a].id < fm_featured[b].id

\* C26 (SpecFilter), the claim as stated: for every active market the time
\* factor of the score is 25 for 1 to 30 days remaining, 20 for 31 to 90, 15
\* for 91 to 180, 5 for more than 180 and 10 for an end date that does not
\* parse; it is 0 only when the end is past, never for an end still to come.
C26_TimeFactorByDaysRemaining ==
  fm_pc = "done" =>
    \A j \in 1..Len(fm_markets) :
      fm_markets[j].active =>
        LET market == fm_markets[j]
            factor == time_score(market)
            hours == market.end.hours
            days == hours \div 24
        IN /\ market.end.format = "invalid" => factor = 10
           /\ market.end.format = "aware" =>
                /\ (1 <= days /\ days <= 30) => factor = 25
                /\ (31 <= days /\ days <= 90) => factor = 20
                /\ (91 <= days /\ days <= 180) => factor = 15
                /\ days > 180 => factor = 5
                /\ hours > 0 => factor # 0
           /\ factor = 0 => (market.end.format = "aware" /\ hours < 0)

\* The venue serves the market id with a volume above 10000 or as featured.
Qualifies(market_id) ==
  LET served == gamma_get_market(market_id) IN
  ~served.raises /\ (served.volume > 10000 \/ served.featured)

\* a is b with some of its elements left out.
RECURSIVE IsSubsequence(_, _)
IsSubsequence(a, b) ==
  IF Len(a) = 0 THEN TRUE
  ELSE IF Len(b) = 0 THEN FALSE
  ELSE IF Head(a) = Head(b) THEN IsSubsequence(Tail(a), Tail(b))
  ELSE IsSubsequence(a, Tail(b))

\* The gate has just run: its output is handed to the RAG filter, or it was
\* empty and the cycle has returned.
GateJustRan ==
  \/ pc = "filter_events_with_rag"
  \/ pc = "done" /\ result = NoHighQuality

\* C27 (Spec): every candidate the gate passes on is a market of its event
\* with volume above 10000 or featured, and the first such market of the
\* event; the candidates are in event order, at most one per event and none
\* for an event without such a market; and every market forecast is such a
\* market.
C27_OnlyHighQualityPassed ==
  /\ GateJustRan =>
       /\ \A i \in 1..Len(high_quality_events) :
            LET ids == split(high_quality_events[i].event.markets)
                passed == high_quality_events[i].market_data
            IN /\ passed.volume > 10000 \/ passed.featured
               /\ \E k \in 1..Len(ids) :
                    /\ ids[k] = passed.id
                    /\ \A j \in 1..(k - 1) : ~Qualifies(ids[j])
       /\ IsSubsequence(
            [i \in 1..Len(high_quality_events) |-> high_quality_events[i].event],
            SelectSeq(events, LAMBDA e : \E k \in 1..Len(split(e.markets)) :
                                           Qualifies(split(e.markets)[k])))
  /\ \A k \in 1..Len(forecast_log) :
       Qualifies(filtered_markets[forecast_log[k].idx].id)

\* An event of three markets, the first at the volume threshold and not
\* above it, the other two qualifying, passed on its second market alone,
\* next to an event without a qualifying market, and a forecast was made.
C27_Witness ==
  /\ Len(forecast_log) > 0
  /\ Len(events) = 2
  /\ events[1].markets = "m3"
  /\ events[2].markets = "m3,m1,m5"
  /\ Len(high_quality_events) = 1
  /\ high_quality_events[1].market_data.id = "m1"

\* C28 (Spec): a candidate without token ids is passed over: every forecast
\* asked for, the candidate an order is submitted for, and the subject of a
\* returned trade decision all have token ids.
C28_NoTokensNoTrade ==
  /\ \A k \in 1..Len(forecast_log) :
       filtered_markets[forecast_log[k].idx].clob_token_ids # ""
  /\ pc \in {"source_best_trade", "execute_market_order"} =>
       filtered_markets[idx].clob_token_ids # ""
  /\ order_calls > 0 => filtered_markets[idx].clob_token_ids # ""
  /\ (pc = "done" /\ result.market # None) =>
       /\ result.market = filtered_markets[idx].id
       /\ filtered_markets[idx].clob_token_ids # ""
       /\ clob_token_ids_of(result.market) # ""

\* The first candidate had no token ids; no forecast was asked for it and
\* the live cycle submitted the order for the second.
C28_Witness ==
  /\ pc = "done"
  /\ order_calls = 1
  /\ Len(filtered_markets) = 2
  /\ filtered_markets[1].clob_token_ids = ""
  /\ Len(forecast_log) = 1
  /\ forecast_log[1].idx = 2
  /\ result.market = filtered_markets[2].id

\* C29 (SpecEdge), the claim as stated: when the analysis text holds no
\* probability the calculation returns a result, computed with the default
\* probability of 0.6, whose confidence is LOW whatever the market price.
C29_UnparsedIsLowConfidence ==
  (edge_pc = "done" /\ analysis.is_text /\ Len(ExtractedNumber) = 0) =>
    /\ edge_result # NoEdgeResult
    /\ edge_result.model = "edge-calculator" => edge_result.ai_probability = Decimal(6, 1)
    /\ edge_result.confidence = "LOW"

\* The upstream fetch behind the request that has just ended failed: it
\* raised, or it answered a status other than 200.
FetchFailed(resp) ==
  resp.kind = "exception" \/ (resp.kind = "status" /\ resp.status_code # 200)

\* C30 (SpecCatalog), the claim as stated: a catalog read whose upstream
\* fetch failed leaves the cache as it was, creating or overwriting no
\* entry.
C30_FailedFetchLeavesCache ==
  [][(svc_pc # "idle" /\ svc_pc' = "idle" /\ FetchFailed(svc_response'))
       => cache' = cache]_vars

====
